---------------------------- MODULE Spec2Model ----------------------------
(***************************************************************************)
(* Model of the literature retrieval pipeline of manuscript_polish_workflow *)
(* (src/core/services/literature_service.py and the utilities it calls).    *)
(*                                                                          *)
(* Texts are TLA+ strings and are processed character by character, as the  *)
(* Python code does.  Python floats are held as integers counting           *)
(* millionths (see Micro).  Characters outside ASCII that the source uses   *)
(* as literals are written with the stand-in characters named below.        *)
(***************************************************************************)
EXTENDS Integers, Sequences, FiniteSets, TLC

(***************************************************************************)
(* Characters and strings                                                   *)
(***************************************************************************)

\* Stand-ins for the non-ASCII literals of the source, one ASCII character
\* for each ideograph: the markers of lines 92, 107 and 116 of
\* literature_service.py, the ideographic comma and the ideographic full stop.
\* Ideographs are word characters for Python's \w; the two punctuation marks
\* are not.
ZhAbstract == "$%"
ZhSummary == "^ %"
ZhKeywords == "&*~"
ZhKeyChars == "&*<"
ZhAuthor == "=+"
ZhComma == ";"
ZhStop == "|"

UpperAlpha == "ABCDEFGHIJKLMNOPQRSTUVWXYZ"
LowerAlpha == "abcdefghijklmnopqrstuvwxyz"
Digits == "0123456789"

CharsOf(s) == {SubSeq(s, i, i) : i \in 1..Len(s)}

\* The characters Python's \w matches (str patterns are Unicode-aware).
WordChars == CharsOf(UpperAlpha) \cup CharsOf(LowerAlpha) \cup CharsOf(Digits)
             \cup {"_"} \cup CharsOf("$%^&*~<=+")

\* The characters str.strip() removes.
WhiteChars == {" ", "\n", "\t", "\r"}

Min(a, b) == IF a < b THEN a ELSE b
Max(a, b) == IF a < b THEN b ELSE a

\* s[i:j] of Python for 0 <= i, j (0-based, end exclusive, clamped).
Slice(s, i, j) ==
    LET lo == Min(i, Len(s))
        hi == Min(j, Len(s))
    IN  IF hi <= lo THEN SubSeq(s, 1, 0) ELSE SubSeq(s, lo + 1, hi)

\* The character of s at 1-based position i ("" outside s).
CharAt(s, i) == IF i \in 1..Len(s) THEN SubSeq(s, i, i) ELSE ""

\* The lower-case letter of each upper-case letter.
LowerOf ==
    [c \in CharsOf(UpperAlpha) |->
        SubSeq(LowerAlpha,
               CHOOSE k \in 1..Len(UpperAlpha) : SubSeq(UpperAlpha, k, k) = c,
               CHOOSE k \in 1..Len(UpperAlpha) : SubSeq(UpperAlpha, k, k) = c)]

LowerChar(c) == IF c \in DOMAIN LowerOf THEN LowerOf[c] ELSE c

RECURSIVE StrLower(_)
\* str.lower(), computed by halves.
StrLower(s) ==
    IF Len(s) = 0 THEN s
    ELSE IF Len(s) = 1 THEN LowerChar(s)
         ELSE StrLower(SubSeq(s, 1, Len(s) \div 2))
              \o StrLower(SubSeq(s, Len(s) \div 2 + 1, Len(s)))

\* needle in hay
Contains(hay, needle) ==
    \E i \in 0..(Len(hay) - Len(needle)) :
        Slice(hay, i, i + Len(needle)) = needle

\* hay.startswith(prefix)
StartsWith(hay, prefix) == Slice(hay, 0, Len(prefix)) = prefix

\* The least and the greatest element of a non-empty set of integers.
Least(S) == CHOOSE i \in S : \A j \in S : i <= j
Greatest(S) == CHOOSE i \in S : \A j \in S : j <= i

\* The elements of a finite set of integers in increasing order.
Ascending(S) ==
    [k \in 1..Cardinality(S) |->
        CHOOSE p \in S : Cardinality({q \in S : q <= p}) = k]

\* str.strip()
Strip(s) ==
    LET black == {i \in 1..Len(s) : SubSeq(s, i, i) \notin WhiteChars}
    IN  IF black = {} THEN "" ELSE SubSeq(s, Least(black), Greatest(black))

\* The offsets at which old occurs in s.
Occurrences(s, old) ==
    {i \in 0..(Len(s) - Len(old)) : Slice(s, i, i + Len(old)) = old}

RECURSIVE ReplaceFrom(_, _, _, _)
\* s[from:].replace(old, new): one step for each replaced occurrence.
ReplaceFrom(s, old, new, from) ==
    LET occ == {i \in Occurrences(s, old) : i >= from}
    IN  IF occ = {} THEN Slice(s, from, Len(s))
        ELSE Slice(s, from, Least(occ)) \o new
             \o ReplaceFrom(s, old, new, Least(occ) + Len(old))

\* s.replace(old, new) for a non-empty old: leftmost, non-overlapping.
Replace(s, old, new) == ReplaceFrom(s, old, new, 0)

\* Splitting at every character of the set seps: str.split(sep) for a
\* one-character sep, re.split('[...]', s) for a character class.
SplitOn(s, seps) ==
    LET cuts == Ascending({i \in 1..Len(s) : SubSeq(s, i, i) \in seps})
        n == Len(cuts)
    IN  [k \in 1..(n + 1) |->
            Slice(s, IF k = 1 THEN 0 ELSE cuts[k - 1],
                     IF k = n + 1 THEN Len(s) ELSE cuts[k] - 1)]

Split(s, sep) == SplitOn(s, {sep})

RECURSIVE Join(_, _)
\* sep.join(parts)
Join(parts, sep) ==
    IF Len(parts) = 0 THEN ""
    ELSE IF Len(parts) = 1 THEN parts[1]
         ELSE parts[1] \o sep \o Join(Tail(parts), sep)

\* seq[:n]
Take(seq, n) == SubSeq(seq, 1, Min(n, Len(seq)))

IsWordAt(s, i) == CharAt(s, i) \in WordChars

\* The regular expression assertion \b at offset p (between the characters at
\* 1-based positions p and p + 1).
Boundary(s, p) == IsWordAt(s, p) # IsWordAt(s, p + 1)

\* The positions where a maximal run of word characters of s begins.
TokenStarts(s) == {i \in 1..Len(s) : IsWordAt(s, i) /\ ~IsWordAt(s, i - 1)}

\* The maximal run of word characters of s that begins at position i.
TokenAt(s, i) ==
    SubSeq(s, i, CHOOSE e \in i..Len(s) :
                    /\ ~IsWordAt(s, e + 1)
                    /\ \A q \in i..e : IsWordAt(s, q))

\* re.findall(r'\b\w+\b', s): the maximal runs of word characters, in order.
Tokens(s) ==
    LET starts == Ascending(TokenStarts(s))
    IN  [k \in DOMAIN starts |-> TokenAt(s, starts[k])]

\* re.search(r'\b' + re.escape(kw) + r'\b', text) finds a match.
WholeWordSearch(kw, text) ==
    \E p \in 0..(Len(text) - Len(kw)) :
        /\ Boundary(text, p)
        /\ Slice(text, p, p + Len(kw)) = kw
        /\ Boundary(text, p + Len(kw))

(***************************************************************************)
(* Numbers                                                                  *)
(***************************************************************************)

\* A Python float f is held as the integer floor(f * Micro).
Micro == 1000000

\* math.log(k) for k = 1..8 in millionths.
LnTable == <<0, 693147, 1098612, 1386294, 1609438, 1791759, 1945910, 2079442>>

\* math.log(n / d) for 1 <= d, n <= 8; exactly 0 when n = d, negative when
\* n < d.
LnMicro(n, d) == LnTable[n] - LnTable[d]

RECURSIVE SumSeq(_)
SumSeq(q) == IF Len(q) = 0 THEN 0 ELSE Head(q) + SumSeq(Tail(q))

RECURSIVE Flatten(_)
\* The concatenation of a sequence of sequences.
Flatten(qq) == IF Len(qq) = 0 THEN <<>> ELSE Head(qq) \o Flatten(Tail(qq))

RECURSIVE SetToSeq(_)
\* list(a_set): the elements once each, in an order the set decides.
SetToSeq(S) ==
    IF S = {} THEN <<>>
    ELSE LET e == CHOOSE v \in S : TRUE IN <<e>> \o SetToSeq(S \ {e})

Range(q) == {q[i] : i \in DOMAIN q}

(***************************************************************************)
(* AlgorithmUtils (src/core/utils/algorithm_utils.py)                       *)
(***************************************************************************)

\* get_general_synonyms()
GeneralSynonyms ==
    [research    |-> <<"study", "investigation", "analysis", "examination">>,
     method      |-> <<"approach", "technique", "methodology", "procedure">>,
     result      |-> <<"outcome", "finding", "conclusion", "output">>,
     analysis    |-> <<"examination", "evaluation", "assessment", "study">>,
     data        |-> <<"information", "dataset", "statistics", "evidence">>,
     model       |-> <<"framework", "system", "structure", "design">>,
     algorithm   |-> <<"method", "procedure", "technique", "approach">>,
     performance |-> <<"efficiency", "effectiveness", "capability", "quality">>,
     evaluation  |-> <<"assessment", "analysis", "examination", "review">>,
     experiment  |-> <<"test", "trial", "study", "investigation">>,
     application |-> <<"use", "implementation", "deployment", "utilization">>,
     development |-> <<"creation", "construction", "building", "design">>,
     improvement |-> <<"enhancement", "optimization", "refinement", "upgrade">>,
     comparison  |-> <<"contrast", "evaluation", "analysis", "assessment">>,
     validation  |-> <<"verification", "confirmation", "testing", "proof">>]

\* The set built by expand_keywords_with_synonyms before it is listed.
\* The expansion with the keywords looked up as they are written: what
\* lines 22-24 would give without keyword.lower().
ExpandedSetExactCase(keywords, general_synonyms) ==
    Range(keywords) \cup
    UNION {Range(general_synonyms[keywords[i]]) :
             i \in {j \in DOMAIN keywords :
                      keywords[j] \in DOMAIN general_synonyms}}

ExpandedSet(keywords, general_synonyms) ==
    Range(keywords) \cup
    UNION {Range(general_synonyms[StrLower(keywords[i])]) :
             i \in {j \in DOMAIN keywords :
                      StrLower(keywords[j]) \in DOMAIN general_synonyms}}

\* expand_keywords_with_synonyms(keywords, general_synonyms)
expand_keywords_with_synonyms(keywords, general_synonyms) ==
    SetToSeq(ExpandedSet(keywords, general_synonyms))

\* Counter(re.findall(r'\b\w+\b', text)).get(word, 0): the number of tokens
\* of text equal to word.
CountOf(text, word) ==
    Cardinality({i \in TokenStarts(text) : TokenAt(text, i) = word})

\* len(re.findall(r'\b\w+\b', text))
TokenCount(text) == Cardinality(TokenStarts(text))

\* sum(1 for doc in all_documents if word in doc.lower())
DocsContaining(word, all_documents) ==
    Cardinality({i \in DOMAIN all_documents :
                   Contains(StrLower(all_documents[i]), word)})

\* Lines 51-54 with the smoothed idf log(n / (1 + df)).
TfIdfSmoothed(count, total_words, df, n) ==
    IF count > 0 /\ df > 0
    THEN (count * LnMicro(n, 1 + df)) \div total_words
    ELSE 0

\* Lines 51-54 with the idf log(n / df) + 1, which is never 0.
TfIdfPlusOne(count, total_words, df, n) ==
    IF count > 0 /\ df > 0
    THEN (count * (LnMicro(n, df) + Micro)) \div total_words
    ELSE 0

\* Lines 48-55: tf * idf for a token that occurs count times among the
\* total_words tokens of the document and in df of the n documents, in
\* millionths.
TfIdf(count, total_words, df, n) ==
    IF count > 0 /\ df > 0
    THEN (count * LnMicro(n, df)) \div total_words
    ELSE 0

\* The tf * idf added for one keyword token (lines 47-55).
TermScore(word, doc_lower, all_documents) ==
    TfIdf(CountOf(doc_lower, word), TokenCount(doc_lower),
          DocsContaining(word, all_documents), Len(all_documents))

\* The tokens of every keyword, keyword by keyword.
KeywordWords(keywords) ==
    Flatten([i \in DOMAIN keywords |-> Tokens(StrLower(keywords[i]))])

\* Lines 38-57 for the lower-cased document and the keyword tokens.
RelevanceOf(kw_words, doc_lower, all_documents) ==
    IF TokenCount(doc_lower) = 0 THEN 0
    ELSE SumSeq([i \in DOMAIN kw_words |->
                    TermScore(kw_words[i], doc_lower, all_documents)])

\* calculate_relevance_score(keywords, document_text, all_documents)
calculate_relevance_score(keywords, document_text, all_documents) ==
    RelevanceOf(KeywordWords(keywords), StrLower(document_text),
                all_documents)

\* Line 71 with the test inverted.
UnmatchedPositions(keywords, text) ==
    {i \in DOMAIN keywords :
        ~WholeWordSearch(StrLower(keywords[i]), StrLower(text))}

\* The keywords counted as matched by calculate_keyword_match_score.
MatchedPositions(keywords, text) ==
    {i \in DOMAIN keywords :
        WholeWordSearch(StrLower(keywords[i]), StrLower(text))}

\* Lines 62-63 taking an empty keyword list as matched in full.
KeywordMatchVacuous(keywords, text) ==
    IF Len(keywords) = 0 THEN Micro
    ELSE IF Len(text) = 0 THEN 0
    ELSE (Cardinality(MatchedPositions(keywords, text)) * Micro)
         \div Len(keywords)

\* calculate_keyword_match_score(keywords, text)
calculate_keyword_match_score(keywords, text) ==
    IF Len(keywords) = 0 \/ Len(text) = 0 THEN 0
    ELSE (Cardinality(MatchedPositions(keywords, text)) * Micro)
         \div Len(keywords)

(***************************************************************************)
(* File utilities (src/core/utils/file_utils.py)                            *)
(***************************************************************************)

\* The last 1-based position of character c in s, 0 when there is none.
LastIndexOf(s, c) ==
    LET at == {i \in 1..Len(s) : SubSeq(s, i, i) = c}
    IN  IF at = {} THEN 0 ELSE Greatest(at)

\* Path(p).name
PathName(p) == Slice(p, LastIndexOf(p, "/"), Len(p))

\* Path(p).stem
PathStem(p) ==
    LET name == PathName(p)
        dot == LastIndexOf(name, ".")
    IN  IF dot > 1 THEN Slice(name, 0, dot - 1) ELSE name

\* A file of the literature directory is [path, kind, content]; kind is
\* "text" (UTF-8 text), "binary" (open() raises UnicodeDecodeError) or
\* "locked" (open() raises another OSError, as for a directory whose name
\* ends in a supported extension).
FileAt(files, path) ==
    LET at == {i \in DOMAIN files : files[i].path = path}
    IN  IF at = {} THEN [path |-> path, kind |-> "missing", content |-> ""]
        ELSE files[CHOOSE i \in at : TRUE]

\* read_file_content(file_path): status "ok" with the text, "none" for the
\* None returned on UnicodeDecodeError or FileNotFoundError, "raise" for an
\* exception that read_file_content lets through.
read_file_content(files, file_path) ==
    LET f == FileAt(files, file_path)
    IN  CASE f.kind = "text" -> [status |-> "ok", content |-> f.content]
          [] f.kind = "locked" -> [status |-> "raise", content |-> ""]
          [] OTHER -> [status |-> "none", content |-> ""]

\* Path values and str values are told apart: save_json and load_json call
\* methods of Path on their argument.
AsPath(name) == [type |-> "Path", name |-> name]
AsStr(p) == [type |-> "str", name |-> p.name]

\* A cache file is NoFile, CorruptFile (bytes json.load rejects) or
\* [kind |-> "json", data |-> d].
NoFile == [kind |-> "absent"]
CorruptFile == [kind |-> "corrupt"]
JsonFile(d) == [kind |-> "json", data |-> d]

\* save_json(data, file_path): file_path.parent raises AttributeError when
\* file_path is a str; otherwise the file is (over)written.
save_json(store, data, file_path) ==
    IF file_path.type = "Path"
    THEN [raised |-> FALSE,
          store |-> [store EXCEPT ![file_path.name] = JsonFile(data)]]
    ELSE [raised |-> TRUE, store |-> store]

\* load_json(file_path): file_path.exists() raises AttributeError when
\* file_path is a str; a missing or unparseable file gives None.
load_json(store, file_path) ==
    IF file_path.type # "Path" THEN [status |-> "raise"]
    ELSE IF store[file_path.name].kind = "json"
         THEN [status |-> "ok", data |-> store[file_path.name].data]
         ELSE [status |-> "none"]

(***************************************************************************)
(* LiteratureService.extract_metadata_fast                                  *)
(* (src/core/services/literature_service.py, lines 47-140)                  *)
(***************************************************************************)

\* any(pattern in line.lower() for pattern in patterns)
HasAny(line, patterns) == \E pat \in patterns : Contains(StrLower(line), pat)

\* The first position i <= last of lines with Hit(lines[i]), 0 when none.
FirstLine(lines, last, Hit(_)) ==
    LET at == {i \in 1..Min(last, Len(lines)) : Hit(lines[i])}
    IN  IF at = {} THEN 0 ELSE Least(at)

\* [f(x).strip() for x in parts if x.strip()]
StripAll(parts) == [i \in DOMAIN parts |-> Strip(parts[i])]

StrippedNonEmpty(parts) ==
    StripAll(SelectSeq(parts, LAMBDA q : Strip(q) # ""))

\* Lines 79-89: the title.
TitleSkips == {"author", "date", "@", "http", "doi"}

TitleLine(line) ==
    LET l == Strip(line)
    IN  /\ l # ""
        /\ ~StartsWith(l, "#")
        /\ Len(l) > 5
        /\ ~HasAny(l, TitleSkips)

TitleAt(lines, i, file_path) ==
    IF i > 0 THEN Strip(lines[i])
    ELSE Replace(PathStem(file_path), "_", " ")

ExtractTitle(lines, file_path) ==
    TitleAt(lines, FirstLine(lines, 10, TitleLine), file_path)

\* Lines 91-104: the abstract after a marker line.
AbstractPatterns == {"abstract", ZhAbstract, "summary", ZhSummary}

RECURSIVE AbstractLines(_, _, _, _)
\* The loop of lines 96-102 from position j to position last.
AbstractLines(lines, j, last, acc) ==
    IF j > last THEN acc
    ELSE IF Strip(lines[j]) # ""
         THEN IF StartsWith(lines[j], "#") THEN acc
              ELSE AbstractLines(lines, j + 1, last, Append(acc, lines[j]))
         ELSE IF Len(acc) > 0 THEN acc
              ELSE AbstractLines(lines, j + 1, last, acc)

AbstractAt(lines, i) ==
    IF i = 0 THEN ""
    ELSE Strip(Join(AbstractLines(lines, i + 1,
                                  Min(i + 19, Len(lines)), <<>>), " "))

ExtractAbstract(lines) ==
    AbstractAt(lines, FirstLine(lines, Len(lines),
                                LAMBDA l : HasAny(l, AbstractPatterns)))

\* Lines 106-113: the keywords.
KeywordPatterns == {"keywords", ZhKeywords, "key words", ZhKeyChars}

KeywordsAt(lines, i) ==
    IF i = 0 THEN <<>>
    ELSE Take(StrippedNonEmpty(
                  Split(Replace(Strip(Join(SubSeq(lines, i + 1,
                                                  Min(i + 4, Len(lines))),
                                           " ")),
                                ZhComma, ","), ",")), 10)

ExtractKeywords(lines) ==
    KeywordsAt(lines, FirstLine(lines, Len(lines),
                                LAMBDA l : HasAny(l, KeywordPatterns)))

\* Lines 115-123: the authors.
AuthorPatterns == {"author", ZhAuthor, "@"}

\* Lines 119-122 for the line that holds the marker.
AuthorsOf(author_text) ==
    IF author_text = "" THEN <<>>
    ELSE Take(StrippedNonEmpty(
                  Split(Replace(Replace(author_text, ZhComma, ","),
                                " and ", ","), ",")), 5)

AuthorsAt(lines, i) ==
    IF i = 0 THEN <<>>
    ELSE AuthorsOf(Strip(Replace(Replace(Replace(lines[i], "author:", ""),
                                         ZhAuthor \o ":", ""), "@", "")))

ExtractAuthors(lines) ==
    AuthorsAt(lines, FirstLine(lines, 15, LAMBDA l : HasAny(l, AuthorPatterns)))

\* Lines 125-128: re.search(r'\b(19|20)\d{2}\b', content).
YearAt(content, p) ==
    /\ Boundary(content, p)
    /\ Slice(content, p, p + 2) \in {"19", "20"}
    /\ CharAt(content, p + 3) \in CharsOf(Digits)
    /\ CharAt(content, p + 4) \in CharsOf(Digits)
    /\ Boundary(content, p + 4)

YearAmong(content, at) ==
    IF at = {} THEN "" ELSE Slice(content, Least(at), Least(at) + 4)

ExtractYear(content) ==
    YearAmong(content, {p \in 0..(Len(content) - 4) : YearAt(content, p)})

\* Lines 130-134: the abstract when no marker gave one.
FallbackOf(kept) ==
    IF Len(kept) = 0 THEN ""
    ELSE Slice(Join(Take([i \in DOMAIN kept |-> Strip(kept[i])], 3), " "),
               0, 500)

FallbackAbstract(lines) ==
    FallbackOf(SelectSeq(lines, LAMBDA l : Strip(l) # "" /\ Len(l) > 20))

\* The record returned at lines 62 and 140.
PathOnly(file_path) == [file_path |-> file_path]

\* extract_metadata_fast(file_path).  The extraction_time field (the wall
\* clock at the call) is not part of the record here.
\* Lines 131-134: the abstract kept.
AbstractOr(marked, lines) ==
    IF marked # "" THEN marked ELSE FallbackAbstract(lines)

\* Lines 65-136 for the content read and its lines.
MetadataFrom(content, lines, file_path) ==
    [title |-> ExtractTitle(lines, file_path),
     authors |-> ExtractAuthors(lines),
     abstract |-> AbstractOr(ExtractAbstract(lines), lines),
     keywords |-> ExtractKeywords(lines),
     year |-> ExtractYear(content),
     file_path |-> file_path,
     extraction_method |-> "fast_local"]

\* Lines 59-62 and 138-140 for what read_file_content gave.
MetadataOf(rd, file_path) ==
    IF rd.status # "ok" \/ rd.content = "" THEN PathOnly(file_path)
    ELSE MetadataFrom(rd.content, Split(rd.content, "\n"), file_path)

extract_metadata_fast(files, file_path) ==
    MetadataOf(read_file_content(files, file_path), file_path)

(***************************************************************************)
(* LiteratureService (src/core/services/literature_service.py)              *)
(***************************************************************************)

\* self.supported_formats
SupportedFormats == <<".txt", ".md", ".pdf">>

\* get_supported_files(directory, extensions): the files of the tree whose
\* name ends in one of the extensions, sorted by path.  The directory listing
\* is held in path order, so selecting keeps it sorted.
PathsOf(kept) == [k \in DOMAIN kept |-> kept[k].path]

get_supported_files(files, extensions) ==
    PathsOf(SelectSeq(files, LAMBDA f :
                \E e \in DOMAIN extensions :
                    /\ Len(f.path) >= Len(extensions[e])
                    /\ Slice(f.path, Len(f.path) - Len(extensions[e]),
                             Len(f.path)) = extensions[e]))

\* self.metadata_cache_dir / (Path(file_path).stem + "_metadata.json")
MetadataFile(file_path) == AsPath(PathStem(file_path) \o "_metadata.json")

\* bool(d) for a dict d; None is held as the dict without keys.
NoneValue == [k \in {} |-> ""]
Truthy(d) == DOMAIN d # {}

\* Lines 549-555: what the cache lookup of _get_or_extract_metadata gives:
\* whether a cached object is returned, and the object.
Looked(loaded, tried) ==
    IF tried /\ loaded.status = "ok"
       /\ Truthy(loaded.data) /\ "title" \in DOMAIN loaded.data
    THEN [hit |-> TRUE, metadata |-> loaded.data]
    ELSE [hit |-> FALSE, metadata |-> NoneValue]

CacheLookup(store, file_path, use_cache) ==
    Looked(load_json(store, AsStr(MetadataFile(file_path))),
           use_cache /\ store[MetadataFile(file_path).name].kind # "absent")

\* _get_or_extract_metadata(file_path, use_cache): the value returned, the
\* cache directory afterwards, and what the call did (files read, cache files
\* written, warnings logged).
\* Lines 561-567: the metadata extracted is saved and returned.
Extracted(store, metadata, saved) ==
    IF Truthy(metadata)
    THEN [metadata |-> metadata, store |-> saved.store,
          reads |-> 1,
          writes |-> IF saved.raised THEN 0 ELSE 1,
          warnings |-> IF saved.raised THEN 1 ELSE 0]
    ELSE [metadata |-> metadata, store |-> store,
          reads |-> 1, writes |-> 0, warnings |-> 0]

\* Lines 558-563
ExtractAndSave(store, metadata, file_path) ==
    Extracted(store, metadata,
              save_json(store, metadata, AsStr(MetadataFile(file_path))))

GetOrExtractWith(looked, files, store, file_path) ==
    IF looked.hit
    THEN [metadata |-> looked.metadata, store |-> store,
          reads |-> 0, writes |-> 0, warnings |-> 0]
    ELSE ExtractAndSave(store, extract_metadata_fast(files, file_path),
                        file_path)

get_or_extract_metadata(files, store, file_path, use_cache) ==
    GetOrExtractWith(CacheLookup(store, file_path, use_cache),
                     files, store, file_path)

\* _find_matched_keywords without the lower() of lines 585 and 588.
FindMatchedExactCase(keywords, content) ==
    SelectSeq(keywords, LAMBDA k : Contains(content, k))

\* _find_matched_keywords(keywords, content)
find_matched_keywords(keywords, content) ==
    SelectSeq(keywords, LAMBDA k : Contains(StrLower(content), StrLower(k)))

\* Line 201 with the weights of config.py (tfidf_weight 0.5).
CombinedScoreEvenWeights(keyword_score, tfidf_score) ==
    keyword_score * 5 + tfidf_score * 5

\* Line 201 with the tf-idf term subtracted.
CombinedScoreDifference(keyword_score, tfidf_score) ==
    keyword_score * 6 - tfidf_score * 4

\* Line 201, in ten-millionths: keyword_score * 0.6 + tfidf_score * 0.4.
CombinedScore(keyword_score, tfidf_score) ==
    keyword_score * 6 + tfidf_score * 4

\* Line 204: combined_score > 0.1, on ten-millionths.
AboveThreshold(combined_score) == combined_score > Micro

\* Lines 205-211: {**metadata, 'keyword_score': ..., ...}; the keys written
\* last win.
LiteratureInfo(metadata, keyword_score, tfidf_score, combined_score, matched) ==
    [keyword_score |-> keyword_score,
     tfidf_score |-> tfidf_score,
     combined_score |-> combined_score,
     matched_keywords |-> matched] @@ metadata

\* Line 218: list.sort(key=combined_score, reverse=True), which is stable.
Before(q, i, j) ==
    \/ q[i].combined_score > q[j].combined_score
    \/ q[i].combined_score = q[j].combined_score /\ i < j

\* Line 218 without reverse=True.
SortAscending(q) ==
    [k \in DOMAIN q |->
        q[CHOOSE i \in DOMAIN q :
            Cardinality({j \in DOMAIN q :
                \/ q[j].combined_score < q[i].combined_score
                \/ q[j].combined_score = q[i].combined_score /\ j < i})
            = k - 1]]

SortByCombinedScore(q) ==
    [k \in DOMAIN q |->
        q[CHOOSE i \in DOMAIN q :
            Cardinality({j \in DOMAIN q : Before(q, j, i)}) = k - 1]]

\* Lines 494-503: what one saved (or failed) file adds to the loop's account.
Processed(acc, saved) ==
    [store |-> saved.store,
     reads |-> acc.reads + 1,
     writes |-> acc.writes + (IF saved.raised THEN 0 ELSE 1),
     warnings |-> acc.warnings + (IF saved.raised THEN 1 ELSE 0),
     processed |-> acc.processed + (IF saved.raised THEN 0 ELSE 1)]

\* Lines 484-494: one iteration of the loop of
\* preprocess_literature_metadata.
PreprocessFile(files, acc, file_path, force_update) ==
    IF acc.store[MetadataFile(file_path).name].kind # "absent"
       /\ ~force_update
    THEN acc
    ELSE Processed(acc,
             save_json(acc.store, extract_metadata_fast(files, file_path),
                       AsStr(MetadataFile(file_path))))

RECURSIVE PreprocessFrom(_, _, _, _, _)
\* The loop (lines 482-503) from the k-th supported file on: the cache
\* directory afterwards and what the loop did.
PreprocessFrom(files, acc, paths, k, force_update) ==
    IF k > Len(paths) THEN acc
    ELSE PreprocessFrom(files,
             PreprocessFile(files, acc, paths[k], force_update),
             paths, k + 1, force_update)

(***************************************************************************)
(* QwenService.extract_metadata (src/core/services/llm_service.py, lines    *)
(* 193-266) and LiteratureService.extract_metadata_with_llm (lines 230-251) *)
(***************************************************************************)

\* The characters of the class ["\s] of lines 258 and 262.
QuoteOrSpace == WhiteChars \cup {"\""}

\* The first position from p on whose character is not in the class: where
\* a greedy run of the class that starts at p ends.
RunEnd(s, p, class) == Least({i \in p..(Len(s) + 1) : CharAt(s, i) \notin class})

\* The positions where key begins in text, letter case ignored.
KeyStarts(text, key) ==
    {s \in 1..Len(text) : StrLower(SubSeq(text, s, Min(Len(text), s + Len(key) - 1))) = key}

\* key["\s]*: tried at position s: the position after the colon, 0 when the
\* pattern does not match there.
ColonAfter(text, c) == IF CharAt(text, c) = ":" THEN c + 1 ELSE 0

AfterColon(text, s, key) ==
    ColonAfter(text, RunEnd(text, s + Len(key), QuoteOrSpace))

\* ["\s]*([^"\n]+) from position d: where the group begins, the run before
\* it being the longest that leaves the group a character; 0 when none does.
TitleGroupStart(text, d) ==
    IF d = 0 \/ {b \in d..RunEnd(text, d, QuoteOrSpace) :
                     CharAt(text, b) \notin {"\"", "\n", ""}} = {}
    THEN 0
    ELSE Greatest({b \in d..RunEnd(text, d, QuoteOrSpace) :
                       CharAt(text, b) \notin {"\"", "\n", ""}})

\* ["\s]*(\d{4}) from position d: where the group begins, 0 when there are
\* no four digits after the run.
YearGroupStart(text, d) ==
    IF d # 0 /\ \A i \in 0..3 :
                   CharAt(text, RunEnd(text, d, QuoteOrSpace) + i) \in CharsOf(Digits)
    THEN RunEnd(text, d, QuoteOrSpace)
    ELSE 0

\* Lines 258-260: re.search takes the leftmost position where the pattern
\* matches; the group runs up to the next quote or line end and is stripped.
TitleGroup(text, b) == Strip(SubSeq(text, b, RunEnd(text, b, CharsOf(text) \ {"\"", "\n"}) - 1))

TitleMatches(text) ==
    {s \in KeyStarts(text, "title") :
         TitleGroupStart(text, AfterColon(text, s, "title")) > 0}

ParsedTitle(text) ==
    IF TitleMatches(text) = {} THEN ""
    ELSE TitleGroup(text,
             TitleGroupStart(text,
                 AfterColon(text, Least(TitleMatches(text)), "title")))

\* Lines 262-264
YearGroup(text, b) == SubSeq(text, b, b + 3)

YearMatches(text) ==
    {s \in KeyStarts(text, "year") :
         YearGroupStart(text, AfterColon(text, s, "year")) > 0}

ParsedYear(text) ==
    IF YearMatches(text) = {} THEN ""
    ELSE YearGroup(text,
             YearGroupStart(text,
                 AfterColon(text, Least(YearMatches(text)), "year")))

\* _parse_metadata_from_text(text)
parse_metadata_from_text(text) ==
    [title |-> ParsedTitle(text), authors |-> <<>>, abstract |-> "",
     keywords |-> <<>>, year |-> ParsedYear(text)]

\* The dict {} and the statement d[key] = value on a dict d.
EmptyDict == [k \in {} |-> ""]

SetItem(d, key, value) ==
    [k \in DOMAIN d \cup {key} |-> IF k = key THEN value ELSE d[k]]

\* Lines 228-233 for what json.loads makes of the response: the object or
\* other value it parses to, or the fields found in the text when it does
\* not parse.
Decoded(reply) ==
    CASE reply.json.kind = "object" ->
             [kind |-> "dict", value |-> reply.json.value]
      [] reply.json.kind = "invalid" ->
             [kind |-> "dict", value |-> parse_metadata_from_text(reply.text)]
      [] OTHER -> [kind |-> reply.json.kind]

\* QwenService.extract_metadata(content), content being what
\* read_file_content gave (None has no len: line 205 raises inside the try),
\* and chat what the client does with the messages.  Whatever is raised
\* inside the try gives {} (lines 235-237).
extract_metadata(rd, chat) ==
    IF rd.status # "ok" \/ chat.status = "raise"
    THEN [kind |-> "dict", value |-> EmptyDict]
    ELSE Decoded(chat.reply)

\* Lines 247-251: the item assignment raises on a value that is no dict, and
\* the handler falls back.
WithFilePath(files, file_path, metadata) ==
    IF metadata.kind = "dict"
    THEN SetItem(metadata.value, "file_path", file_path)
    ELSE extract_metadata_fast(files, file_path)

\* Lines 244-251
LlmExtracted(files, file_path, rd, chat) ==
    IF rd.status = "raise"
    THEN extract_metadata_fast(files, file_path)
    ELSE WithFilePath(files, file_path, extract_metadata(rd, chat))

\* extract_metadata_with_llm(file_path) of a service built with llm_service
\* None ("none") or a QwenService ("qwen") whose client answers as chat says.
extract_metadata_with_llm(files, file_path, llm_service, chat) ==
    IF llm_service = "none"
    THEN extract_metadata_fast(files, file_path)
    ELSE LlmExtracted(files, file_path,
                      read_file_content(files, file_path), chat)

(***************************************************************************)
(* LiteratureService.extract_relevant_passages and the two ways it extracts *)
(* the passages of a document (literature_service.py, lines 253-461), with  *)
(* _generate_citation (lines 511-532)                                       *)
(***************************************************************************)

\* Stand-ins for the defaults of lines 380, 522 and 530: "unknown",
\* "unknown title" and "unknown author".
ZhUnknown == "{}"
ZhUnknownTitle == "{}[]"
ZhUnknownAuthor == "{}=+"

\* d.get(key, default)
Get(d, key, default) == IF key \in DOMAIN d THEN d[key] ELSE default

\* A Python number held with its type, as the values of relevance_score are:
\* a reply can hold a value of another type under that key.
Number(n) == [type |-> "number", value |-> n]

\* All the authors joined: what lines 526-528 would give without the cut
\* to three and the "et al." that marks it.
AuthorStringAll(authors) ==
    IF Len(authors) = 0 THEN ZhUnknownAuthor ELSE Join(authors, ", ")

\* _generate_citation(literature)
AuthorString(authors) ==
    IF Len(authors) = 0 THEN ZhUnknownAuthor
    ELSE Join(Take(authors, 3), ", ")
         \o (IF Len(authors) > 3 THEN " et al." ELSE "")

generate_citation(literature) ==
    AuthorString(Get(literature, "authors", <<>>))
    \o " (" \o Get(literature, "year", "") \o "). "
    \o Get(literature, "title", ZhUnknownTitle)

\* Lines 380-382 and 385-387 (the same at 450-452 and 455-457): what a
\* passage takes from the literature record it comes from.
PassageInfo(text, relevance_score, related_keywords, literature) ==
    [text |-> text,
     source_title |-> Get(literature, "title", ZhUnknown),
     source_authors |-> Get(literature, "authors", <<>>),
     source_year |-> Get(literature, "year", ""),
     relevance_score |-> relevance_score,
     related_keywords |-> related_keywords,
     citation |-> generate_citation(literature),
     source_file |-> Get(literature, "file_path", ""),
     combined_score |-> Get(literature, "combined_score", 0)]

\* Line 412: re.split(r'[<stop>.!?]', content)
Sentences(content) == SplitOn(content, {ZhStop, ".", "!", "?"})

\* Lines 420-426: the keywords found in a sentence, letter case ignored.
MatchedIn(sentence, keywords) ==
    SelectSeq(keywords,
              LAMBDA kw : Contains(StrLower(sentence), StrLower(kw)))

\* Lines 416-434: the positions of the sentences that are scored and kept.
KeptSentences(sentences, keywords) ==
    {k \in DOMAIN sentences :
        /\ Len(Strip(sentences[k])) >= 10
        /\ Len(MatchedIn(sentences[k], keywords)) > 0}

\* The order of the text: what line 440 would take without the sort of
\* line 437.
SentenceBeforeInText(sentences, keywords, j, k) == j < k

\* Line 437: the stable sort by score, descending.
SentenceBefore(sentences, keywords, j, k) ==
    \/ Len(MatchedIn(sentences[j], keywords))
           > Len(MatchedIn(sentences[k], keywords))
    \/ /\ Len(MatchedIn(sentences[j], keywords))
              = Len(MatchedIn(sentences[k], keywords))
       /\ j < k

RankedSentences(sentences, keywords, kept) ==
    [r \in 1..Cardinality(kept) |->
        CHOOSE k \in kept :
            Cardinality({j \in kept :
                SentenceBefore(sentences, keywords, j, k)}) = r - 1]

\* Lines 442-449: the sentence with the one before and the one after it,
\* stripped, joined by the full stop and cut to 300 characters.
WindowText(sentences, k) ==
    Slice(Join(StrippedNonEmpty(SubSeq(sentences, Max(1, k - 1),
                                       Min(Len(sentences), k + 1))),
               ZhStop),
          0, 300)

\* Lines 448-458: min(1.0, score / len(keywords)) in millionths.
FallbackPassage(sentences, keywords, literature, k) ==
    PassageInfo(WindowText(sentences, k),
                Number(Min(Micro, (Len(MatchedIn(sentences[k], keywords)) * Micro)
                                      \div Len(keywords))),
                Take(MatchedIn(sentences[k], keywords), 5),
                literature)

FallbackOfRanked(sentences, keywords, literature, ranked) ==
    [r \in DOMAIN ranked |->
        FallbackPassage(sentences, keywords, literature, ranked[r])]

FallbackOfSentences(sentences, keywords, literature, max_passages) ==
    FallbackOfRanked(sentences, keywords, literature,
        Take(RankedSentences(sentences, keywords,
                             KeptSentences(sentences, keywords)),
             max_passages))

\* _extract_passages_fallback(content, keywords, literature, max_passages)
\* for a content that is a str.
extract_passages_fallback(content, keywords, literature, max_passages) ==
    FallbackOfSentences(Sentences(content), keywords, literature,
                        max_passages)

\* Lines 376-389: the passages built from the parsed reply, every one of
\* which has its text.
LlmPassages(passages, literature) ==
    [k \in DOMAIN passages |->
        PassageInfo(passages[k].text,
                    Get(passages[k], "relevance_score", Number(Micro \div 2)),
                    Get(passages[k], "related_keywords", <<>>),
                    literature)]

\* Lines 326-391: whether the try block of _extract_passages_with_llm runs
\* to its end.  A QwenService does not take the second positional argument
\* of the call of line 368 (llm_service.py, line 108); any other service
\* does what reply says: the call raises, the parsing raises, or a value is
\* parsed.  A parsed value that is no object has no get, and a passage
\* without text raises at line 379.
LlmPathCompletes(llm_service, reply) ==
    /\ llm_service # "qwen"
    /\ reply.status = "parsed"
    /\ reply.data.kind = "object"
    /\ \A k \in DOMAIN Get(reply.data.value, "passages", <<>>) :
           "text" \in DOMAIN Get(reply.data.value, "passages", <<>>)[k]

\* _extract_passages_with_llm(content, keywords, literature, max_passages)
\* for a content that is a str.
extract_passages_with_llm(content, keywords, literature, max_passages, llm_service, reply) ==
    IF LlmPathCompletes(llm_service, reply)
    THEN LlmPassages(Get(reply.data.value, "passages", <<>>), literature)
    ELSE extract_passages_fallback(content, keywords, literature,
                                   max_passages)

\* Lines 273-293: the passages of one document.  Nothing is added for a
\* record without file_path, a file whose reading raises, or a content of
\* None (len(None) and re.split(None) raise, line 293 goes on).
PassagesOfRead(rd, keywords, literature, max_passages, llm_service, reply) ==
    IF rd.status # "ok" THEN <<>>
    ELSE IF llm_service = "none"
         THEN extract_passages_fallback(rd.content, keywords, literature,
                                        max_passages)
         ELSE extract_passages_with_llm(rd.content, keywords, literature,
                                        max_passages, llm_service, reply)

PassagesOfDocument(files, keywords, literature, max_passages, llm_service, reply) ==
    IF "file_path" \notin DOMAIN literature THEN <<>>
    ELSE PassagesOfRead(read_file_content(files, literature.file_path),
                        keywords, literature, max_passages, llm_service,
                        reply)

\* Lines 296-299: relevance_score + combined_score * 0.1, in hundred-
\* millionths (combined_score counts ten-millionths).
PassageKey(p) == 100 * p.relevance_score.value + p.combined_score

PassageBefore(q, i, j) ==
    \/ PassageKey(q[i]) > PassageKey(q[j])
    \/ PassageKey(q[i]) = PassageKey(q[j]) /\ i < j

SortPassages(q) ==
    [k \in DOMAIN q |->
        q[CHOOSE i \in DOMAIN q :
            Cardinality({j \in DOMAIN q : PassageBefore(q, j, i)}) = k - 1]]

\* The first 20 passages in the order they were found: what line 306 would
\* return without the sort of lines 296-299.
RankedUnsorted(found) ==
    IF \E k \in DOMAIN found : found[k].relevance_score.type # "number"
    THEN [raised |-> TRUE, passages |-> <<>>]
    ELSE [raised |-> FALSE, passages |-> Take(found, 20)]

\* Lines 296-310: the sort raises on a relevance_score that is no number,
\* and the handler of line 308 raises again; else the first 20 are returned.
Ranked(found) ==
    IF \E k \in DOMAIN found : found[k].relevance_score.type # "number"
    THEN [raised |-> TRUE, passages |-> <<>>]
    ELSE [raised |-> FALSE, passages |-> Take(SortPassages(found), 20)]

\* extract_relevant_passages(literature_list, keywords, max_literature,
\* passages_per_literature): replies[i] is what the service does when asked
\* about the i-th record.
extract_relevant_passages(files, literature_list, keywords, max_literature, passages_per_literature, llm_service, replies) ==
    Ranked(Flatten([i \in 1..Min(max_literature, Len(literature_list)) |->
               PassagesOfDocument(files, keywords, literature_list[i],
                                  passages_per_literature, llm_service,
                                  replies[i])]))

(***************************************************************************)
(* Bounds and the inputs of the model                                       *)
(***************************************************************************)

\* The most files a literature directory holds besides its README.
MaxFiles == 2

\* The greatest max_results a search is called with.
MaxResults == 2

\* The paths a literature directory can hold, in path order.  The first two
\* share their stem.
PathPool == <<"lit/a.md", "lit/a.txt", "lit/sub/b.pdf", "lit/sub/c.txt">>

\* A file that no supported extension matches; it sorts before the pool.
ReadmeFile ==
    [path |-> "lit/README.rst", kind |-> "text",
     content |-> "data information dataset statistics evidence graph theory"]

DocA == "Graph theory of data\nAbstract: first results\ndataset statistics 2020"
DocB == "graphs and evidence"
DocC == "unrelated text"

\* What a pool path can be: absent, or a file of one of these kinds.
FileChoices ==
    {[kind |-> "absent", content |-> ""],
     [kind |-> "text", content |-> DocA],
     [kind |-> "text", content |-> DocB],
     [kind |-> "text", content |-> DocC],
     [kind |-> "binary", content |-> ""],
     [kind |-> "locked", content |-> ""]}

\* The directory listing for a choice of what each pool path is.
Listing(choice) ==
    LET all == [k \in DOMAIN choice |->
                  [path |-> PathPool[k], kind |-> choice[k].kind,
                   content |-> choice[k].content]]
    IN  <<ReadmeFile>> \o SelectSeq(all, LAMBDA f : f.kind # "absent")

\* The keyword lists a search is called with.
KeywordLists == {<<>>, <<"Data">>, <<"graph", "graph theory">>}

\* The names of the cache files of the pool paths.
CacheNames == {MetadataFile(PathPool[k]).name : k \in DOMAIN PathPool}

\* A metadata object left in the cache by an earlier run.
CachedMetadata ==
    [title |-> "An older title", authors |-> <<"Ann">>, abstract |-> "",
     keywords |-> <<>>, year |-> "2019", file_path |-> "lit/old/a.txt",
     extraction_method |-> "fast_local"]

CacheChoices == {NoFile, CorruptFile, JsonFile(CachedMetadata)}

(***************************************************************************)
(* State                                                                    *)
(***************************************************************************)

VARIABLES
    dir_exists,          \* the literature directory exists
    files,               \* its listing: [path, kind, content], in path order
    store,               \* the metadata cache directory: name -> cache file
    pc,                  \* "idle", "collect", "score" or "done"
    call,                \* the call in progress and its arguments
    idx,                 \* the position of the loop in supported_files
    all_documents,       \* search_literature's all_documents
    expanded_keywords,   \* search_literature's expanded_keywords
    matched_literature,  \* search_literature's matched_literature
    ret,                 \* how the call ended and what it returned
    log,                 \* what the call did: reads, writes, warnings, errors
    fn                   \* the arguments and result of a function applied alone

vars == <<dir_exists, files, store, pc, call, idx, all_documents,
          expanded_keywords, matched_literature, ret, log, fn>>

world == <<dir_exists, files>>
locals == <<idx, all_documents, expanded_keywords, matched_literature>>

NoCall == [op |-> "none"]
NoRet == [status |-> "none", value |-> <<>>]
Returned(v) == [status |-> "returned", value |-> v]
NoLog == [reads |-> 0, writes |-> 0, warnings |-> 0, errors |-> 0]
NoFn == [op |-> "none"]

InitWorld ==
    /\ dir_exists \in BOOLEAN
    /\ \E choice \in [1..MaxFiles -> FileChoices] :
          files = IF dir_exists THEN Listing(choice) ELSE <<>>
    /\ \E used \in [{MetadataFile(PathPool[k]).name : k \in 1..MaxFiles}
                      -> CacheChoices] :
          store = [n \in CacheNames |->
                     IF n \in DOMAIN used THEN used[n] ELSE NoFile]

InitIdle ==
    /\ pc = "idle"
    /\ call = NoCall
    /\ idx = 0
    /\ all_documents = <<>>
    /\ expanded_keywords = <<>>
    /\ matched_literature = <<>>
    /\ ret = NoRet
    /\ log = NoLog

Init == InitWorld /\ InitIdle /\ fn = NoFn

\* supported_files (lines 167 and 479)
SupportedFiles == get_supported_files(files, SupportedFormats)

(***************************************************************************)
(* search_literature (lines 142-228), one action for each step              *)
(***************************************************************************)

\* Lines 157-159 raising for a missing directory.
SearchStartRaising(keywords, max_results, use_cache) ==
    /\ pc = "idle"
    /\ call' = [op |-> "search", keywords |-> keywords,
                max_results |-> max_results, use_cache |-> use_cache]
    /\ idx' = 1
    /\ all_documents' = <<>>
    /\ expanded_keywords' = <<>>
    /\ matched_literature' = <<>>
    /\ IF dir_exists
       THEN /\ pc' = "collect"
            /\ ret' = NoRet
            /\ log' = NoLog
       ELSE /\ pc' = "done"
            /\ ret' = [status |-> "raised", value |-> <<>>]
            /\ log' = NoLog
    /\ UNCHANGED <<world, store, fn>>

\* Lines 155-167: the call, the directory check and the enumeration.
SearchStart(keywords, max_results, use_cache) ==
    /\ pc = "idle"
    /\ call' = [op |-> "search", keywords |-> keywords,
                max_results |-> max_results, use_cache |-> use_cache]
    /\ idx' = 1
    /\ all_documents' = <<>>
    /\ expanded_keywords' = <<>>
    /\ matched_literature' = <<>>
    /\ IF dir_exists
       THEN /\ pc' = "collect"
            /\ ret' = NoRet
            /\ log' = NoLog
       ELSE /\ pc' = "done"
            /\ ret' = Returned(<<>>)
            /\ log' = [NoLog EXCEPT !.errors = 1]
    /\ UNCHANGED <<world, store, fn>>

\* Lines 170-176: one iteration of the first pass.
Collected(rd) ==
    /\ all_documents' =
           IF rd.status = "ok" /\ rd.content # ""
           THEN Append(all_documents, rd.content)
           ELSE all_documents
    /\ log' = [log EXCEPT
                 !.reads = @ + 1,
                 !.warnings = @ + (IF rd.status = "raise" THEN 1 ELSE 0)]

SearchCollect ==
    /\ pc = "collect"
    /\ idx <= Len(SupportedFiles)
    /\ Collected(read_file_content(files, SupportedFiles[idx]))
    /\ idx' = idx + 1
    /\ UNCHANGED <<world, store, pc, call, expanded_keywords,
                   matched_literature, ret, fn>>

\* The first pass left after its first file: the second pass would then
\* score against a corpus of one document.
SearchExpandEarly ==
    /\ pc = "collect"
    /\ idx > Min(1, Len(SupportedFiles))
    /\ expanded_keywords' =
           expand_keywords_with_synonyms(call.keywords, GeneralSynonyms)
    /\ pc' = "score"
    /\ idx' = 1
    /\ UNCHANGED <<world, store, call, all_documents, matched_literature,
                   ret, log, fn>>

\* Line 179: the keywords are expanded once the first pass is over.
SearchExpand ==
    /\ pc = "collect"
    /\ idx > Len(SupportedFiles)
    /\ expanded_keywords' =
           expand_keywords_with_synonyms(call.keywords, GeneralSynonyms)
    /\ pc' = "score"
    /\ idx' = 1
    /\ UNCHANGED <<world, store, call, all_documents, matched_literature,
                   ret, log, fn>>

\* Lines 194-212 for a file whose content and metadata were obtained.
Scored(matched, got, content, keyword_score, tfidf_score) ==
    [matched |->
         IF AboveThreshold(CombinedScore(keyword_score, tfidf_score))
         THEN Append(matched,
                  LiteratureInfo(got.metadata, keyword_score, tfidf_score,
                      CombinedScore(keyword_score, tfidf_score),
                      find_matched_keywords(expanded_keywords, content)))
         ELSE matched,
     store |-> got.store,
     reads |-> 1 + got.reads,
     writes |-> got.writes,
     warnings |-> got.warnings]

\* Lines 189-192: the metadata is obtained; a file without any is passed over.
WithMetadata(matched, got, content) ==
    IF Truthy(got.metadata)
    THEN Scored(matched, got, content,
             calculate_keyword_match_score(expanded_keywords, content),
             calculate_relevance_score(expanded_keywords, content,
                                       all_documents))
    ELSE [matched |-> matched, store |-> got.store, reads |-> 1 + got.reads,
          writes |-> got.writes, warnings |-> got.warnings]

\* Lines 183-186 and 214-215 for what read_file_content gave.
ScoreRead(rd, file_path) ==
    IF rd.status = "raise"
    THEN [matched |-> matched_literature, store |-> store,
          reads |-> 1, writes |-> 0, warnings |-> 1]
    ELSE IF rd.status # "ok" \/ rd.content = ""
         THEN [matched |-> matched_literature, store |-> store,
               reads |-> 1, writes |-> 0, warnings |-> 0]
         ELSE WithMetadata(matched_literature,
                  get_or_extract_metadata(files, store, file_path,
                                          call.use_cache),
                  rd.content)

\* Lines 183-215: what one iteration of the second pass does for file_path.
ScoreFile(file_path) ==
    ScoreRead(read_file_content(files, file_path), file_path)

ScoreStep(done) ==
    /\ matched_literature' = done.matched
    /\ store' = done.store
    /\ log' = [log EXCEPT !.reads = @ + done.reads,
                          !.writes = @ + done.writes,
                          !.warnings = @ + done.warnings]

\* Lines 183-215 with the reading outside the try: a file whose reading
\* raises ends the search.
SearchScoreAborting ==
    /\ pc = "score"
    /\ idx <= Len(SupportedFiles)
    /\ IF read_file_content(files, SupportedFiles[idx]).status = "raise"
       THEN /\ pc' = "done"
            /\ ret' = [status |-> "raised", value |-> <<>>]
            /\ log' = [log EXCEPT !.reads = @ + 1, !.errors = @ + 1]
            /\ UNCHANGED <<store, idx, matched_literature>>
       ELSE /\ ScoreStep(ScoreFile(SupportedFiles[idx]))
            /\ idx' = idx + 1
            /\ UNCHANGED <<pc, ret>>
    /\ UNCHANGED <<world, call, all_documents, expanded_keywords, fn>>

SearchScore ==
    /\ pc = "score"
    /\ idx <= Len(SupportedFiles)
    /\ ScoreStep(ScoreFile(SupportedFiles[idx]))
    /\ idx' = idx + 1
    /\ UNCHANGED <<world, pc, call, all_documents, expanded_keywords, ret, fn>>

\* Lines 218-224 with the truncation before the sort.
SearchResultTruncatedFirst(matched, max_results) ==
    SortByCombinedScore(Take(matched, max_results))

\* Lines 218-224: the sort, the truncation and the return.
SearchResult(matched, max_results) ==
    Take(SortByCombinedScore(matched), max_results)

SearchFinish ==
    /\ pc = "score"
    /\ idx > Len(SupportedFiles)
    /\ ret' = Returned(SearchResult(matched_literature, call.max_results))
    /\ pc' = "done"
    /\ UNCHANGED <<world, store, call, locals, log, fn>>

(***************************************************************************)
(* preprocess_literature_metadata (lines 463-509) and                       *)
(* _get_or_extract_metadata (lines 534-571), each one action                *)
(***************************************************************************)

\* The cache directory and the account of a finished call.
Effects(done) ==
    /\ store' = done.store
    /\ log' = [NoLog EXCEPT !.reads = done.reads,
                            !.writes = done.writes,
                            !.warnings = done.warnings]

GotMetadata(got) ==
    /\ ret' = Returned(got.metadata)
    /\ Effects(got)

Preprocess(force_update) ==
    /\ pc = "idle"
    /\ call' = [op |-> "preprocess", force_update |-> force_update]
    /\ pc' = "done"
    /\ ret' = Returned(<<>>)
    /\ IF dir_exists
       THEN Effects(PreprocessFrom(files,
                        [store |-> store, reads |-> 0, writes |-> 0,
                         warnings |-> 0, processed |-> 0],
                        SupportedFiles, 1, force_update))
       ELSE /\ store' = store
            /\ log' = [NoLog EXCEPT !.errors = 1]
    /\ UNCHANGED <<world, locals, fn>>

\* _get_or_extract_metadata with extract_metadata_with_llm in the place of
\* extract_metadata_fast at line 558, for a service whose reply parses.
GetOrExtractByLlm(file_path, use_cache) ==
    /\ pc = "idle"
    /\ call' = [op |-> "get_or_extract", file_path |-> file_path,
                use_cache |-> use_cache]
    /\ pc' = "done"
    /\ GotMetadata(
           ExtractAndSave(store,
               extract_metadata_with_llm(files, file_path, "qwen",
                   [status |-> "ok",
                    reply |-> [text |-> "{\"title\": \"T\"}",
                               json |-> [kind |-> "object",
                                         value |-> [title |-> "T"]]]]),
               file_path))
    /\ UNCHANGED <<world, locals, fn>>

GetOrExtract(file_path, use_cache) ==
    /\ pc = "idle"
    /\ call' = [op |-> "get_or_extract", file_path |-> file_path,
                use_cache |-> use_cache]
    /\ pc' = "done"
    /\ GotMetadata(get_or_extract_metadata(files, store, file_path, use_cache))
    /\ UNCHANGED <<world, locals, fn>>

\* The caller takes the result; the service is idle again.
Return ==
    /\ pc = "done"
    /\ pc' = "idle"
    /\ call' = NoCall
    /\ idx' = 0
    /\ all_documents' = <<>>
    /\ expanded_keywords' = <<>>
    /\ matched_literature' = <<>>
    /\ ret' = NoRet
    /\ log' = NoLog
    /\ UNCHANGED <<world, store, fn>>

Next ==
    \/ \E keywords \in KeywordLists, max_results \in {1, MaxResults},
          use_cache \in BOOLEAN :
          SearchStart(keywords, max_results, use_cache)
    \/ SearchCollect
    \/ SearchExpand
    \/ SearchScore
    \/ SearchFinish
    \/ \E force_update \in BOOLEAN : Preprocess(force_update)
    \/ \E k \in 1..Len(SupportedFiles), use_cache \in BOOLEAN :
          GetOrExtract(SupportedFiles[k], use_cache)
    \/ Return

Spec == Init /\ [][Next]_vars


(***************************************************************************)
(* The functions applied alone: the service is idle, the arguments are in   *)
(* fn and the function's result is put next to them                         *)
(***************************************************************************)

InitAlone ==
    /\ dir_exists = FALSE
    /\ files = <<>>
    /\ store = [n \in CacheNames |-> NoFile]
    /\ InitIdle

\* The sequences of at most n positions of a pool, and of exactly n.
SeqsUpTo(pool, n) == UNION {[1..k -> DOMAIN pool] : k \in 0..n}
SeqsOf(pool, n) == [1..n -> DOMAIN pool]

\* The members of the pool at the positions of q.
Picked(pool, q) == [i \in DOMAIN q |-> pool[q[i]]]

(***************************************************************************)
(* calculate_keyword_match_score on the expanded keywords (lines 179, 194)  *)
(***************************************************************************)

\* The most phrases a scored text is made of.
MaxPhrases == 2

MatchPhrases ==
    <<"Data", "graph theory", "graphs", "We use C# daily",
      "information dataset statistics evidence">>

MatchKeywordLists ==
    {<<>>, <<"data">>, <<"Graph", "graph theory">>, <<"C#">>, <<"graph">>}

InitMatch ==
    /\ InitAlone
    /\ \E keywords \in MatchKeywordLists, q \in SeqsUpTo(MatchPhrases, MaxPhrases) :
          fn = [op |-> "match_args", keywords |-> keywords,
                text |-> Join(Picked(MatchPhrases, q), " ")]

\* Lines 179 and 194: the keywords are expanded, the text is scored.
Matched(keywords, expanded, text) ==
    [op |-> "match", keywords |-> keywords, expanded |-> expanded,
     text |-> text,
     score |-> calculate_keyword_match_score(expanded, text)]

MatchScore ==
    /\ fn.op = "match_args"
    /\ fn' = Matched(fn.keywords,
                     expand_keywords_with_synonyms(fn.keywords, GeneralSynonyms),
                     fn.text)
    /\ UNCHANGED <<world, store, pc, call, locals, ret, log>>

NextMatch == MatchScore

SpecMatch == InitMatch /\ [][NextMatch]_vars

(***************************************************************************)
(* The scores of one document (lines 194-201) for a fixed keyword list and  *)
(* a fixed corpus, while tokens of the document that belong to no keyword   *)
(* are replaced by keyword tokens                                           *)
(***************************************************************************)

\* The number of tokens of a scored document.
DocTokens == 3

ScoreVocabulary == <<"graph", "theory", "data", "other">>

ScoreKeywordLists == {<<"graph", "data">>, <<"Graph theory", "theory">>}

\* In the first corpus every token is in every document, in the second and
\* the third some tokens are in a part of the documents only.
ScoreCorpora ==
    {<<"graph data theory other">>,
     <<"graph other", "theory other", "data graph">>,
     <<"graph theory", "other">>}

InitScore ==
    /\ InitAlone
    /\ \E keywords \in ScoreKeywordLists, corpus \in ScoreCorpora,
          q \in SeqsOf(ScoreVocabulary, DocTokens) :
          fn = [op |-> "score_args", keywords |-> keywords,
                corpus |-> corpus, doc |-> Picked(ScoreVocabulary, q)]

\* Lines 194-201
Scores(keyword_score, tfidf_score) ==
    [keyword_score |-> keyword_score,
     tfidf_score |-> tfidf_score,
     combined_score |-> CombinedScore(keyword_score, tfidf_score)]

ScoresOf(keywords, text, corpus) ==
    Scores(calculate_keyword_match_score(keywords, text),
           calculate_relevance_score(keywords, text, corpus))

\* The document is scored as it is.
ScoreDocument ==
    /\ fn.op = "score_args"
    /\ fn' = [op |-> "scored", keywords |-> fn.keywords,
              corpus |-> fn.corpus, doc |-> fn.doc,
              scores |-> ScoresOf(fn.keywords, Join(fn.doc, " "), fn.corpus),
              replaced |-> 0, before |-> fn.doc,
              scores_before |-> ScoresOf(fn.keywords, Join(fn.doc, " "),
                                         fn.corpus)]
    /\ UNCHANGED <<world, store, pc, call, locals, ret, log>>

\* The token at position i, which belongs to no keyword, gives way to the
\* keyword token w, and the document is scored again; the document and the
\* scores before the replacement are kept beside the new ones.
ReplaceToken(i, w) ==
    /\ fn.op = "scored"
    /\ fn.doc[i] \notin Range(KeywordWords(fn.keywords))
    /\ w \in Range(KeywordWords(fn.keywords))
    /\ fn' = [fn EXCEPT
                !.doc = [fn.doc EXCEPT ![i] = w],
                !.scores = ScoresOf(fn.keywords,
                                    Join([fn.doc EXCEPT ![i] = w], " "),
                                    fn.corpus),
                !.replaced = 1,
                !.before = fn.doc,
                !.scores_before = fn.scores]
    /\ UNCHANGED <<world, store, pc, call, locals, ret, log>>

NextScore ==
    \/ ScoreDocument
    \/ \E i \in 1..DocTokens, w \in Range(ScoreVocabulary) : ReplaceToken(i, w)

SpecScore == InitScore /\ [][NextScore]_vars

(***************************************************************************)
(* extract_metadata_fast on documents made of a few lines                   *)
(***************************************************************************)

\* The most lines a document given to the extractor has.
MaxLines == 3

ExtractLines ==
    <<"Abstract: This paper studies X.", "Introduction...",
      "A Study of X", "">>

ExtractPath == "lit/paper_one.txt"

InitExtract ==
    /\ dir_exists = TRUE
    /\ \E q \in SeqsUpTo(ExtractLines, MaxLines) :
          /\ Len(q) > 0
          /\ files = <<[path |-> ExtractPath, kind |-> "text",
                        content |-> Join(Picked(ExtractLines, q), "\n")]>>
    /\ store = [n \in CacheNames |-> NoFile]
    /\ InitIdle
    /\ fn = [op |-> "extract_args", file_path |-> ExtractPath]

Extract ==
    /\ fn.op = "extract_args"
    /\ fn' = [op |-> "extracted", file_path |-> fn.file_path,
              metadata |-> extract_metadata_fast(files, fn.file_path)]
    /\ UNCHANGED <<world, store, pc, call, locals, ret, log>>

NextExtract == Extract

SpecExtract == InitExtract /\ [][NextExtract]_vars

(***************************************************************************)
(* search_literature on a directory of three documents, one of which holds  *)
(* the keyword five times among its hundred words                           *)
(***************************************************************************)

Nineteen ==
    "is one of many plain words that fill the page and say nothing new on the topic at all"

Twenty == "algorithm " \o Nineteen

\* A hundred words, "algorithm" five times among them.
Scenario1Document == Join(<<Twenty, Twenty, Twenty, Twenty, Twenty>>, " ")

\* Documents without the word "algorithm".
OtherDocuments ==
    <<"a note on weather and rivers",
      "Method, approach, technique, procedure.",
      "efficient algorithms for graphs",
      "the approach of the survey">>

Scenario1Paths == <<"lit/a.txt", "lit/sub/b.pdf", "lit/sub/c.txt">>

Scenario1Keywords == {<<"algorithm">>, <<"Algorithm">>}

InitScenario1 ==
    /\ dir_exists = TRUE
    /\ \E at \in DOMAIN Scenario1Paths, q \in SeqsOf(OtherDocuments, Len(Scenario1Paths)) :
          files = [k \in DOMAIN Scenario1Paths |->
                     [path |-> Scenario1Paths[k], kind |-> "text",
                      content |-> IF k = at THEN Scenario1Document
                                  ELSE OtherDocuments[q[k]]]]
    /\ store = [n \in CacheNames |-> NoFile]
    /\ InitIdle
    /\ fn = NoFn

NextScenario1 ==
    \/ \E keywords \in Scenario1Keywords, use_cache \in BOOLEAN :
          SearchStart(keywords, MaxResults, use_cache)
    \/ SearchCollect
    \/ SearchExpand
    \/ SearchScore
    \/ SearchFinish

SpecScenario1 == InitScenario1 /\ [][NextScenario1]_vars

(***************************************************************************)
(* Properties of search_literature, preprocess_literature_metadata and      *)
(* _get_or_extract_metadata, under Spec                                     *)
(***************************************************************************)

SearchDone == pc = "done" /\ call.op = "search"

\* The documents of the directory that can be read and are not empty, in
\* path order: the full corpus.
ReadablePaths ==
    SelectSeq(SupportedFiles, LAMBDA p :
        /\ read_file_content(files, p).status = "ok"
        /\ read_file_content(files, p).content # "")

FullCorpus ==
    [k \in DOMAIN ReadablePaths |-> FileAt(files, ReadablePaths[k]).content]

\* The keyword score and the tf-idf score of the file of a returned record,
\* for the expanded keywords of the call and the full corpus.
KeywordScoreOf(r) ==
    calculate_keyword_match_score(
        expand_keywords_with_synonyms(call.keywords, GeneralSynonyms),
        FileAt(files, r.file_path).content)

TfidfScoreOf(r) ==
    calculate_relevance_score(
        expand_keywords_with_synonyms(call.keywords, GeneralSynonyms),
        FileAt(files, r.file_path).content, FullCorpus)

\* C1: every record returned by search_literature carries the keyword score
\* and the tf-idf score of its file for the expanded keywords and the full
\* corpus, and its combined_score is 0.6 times the first plus 0.4 times the
\* second (here 6 and 4 times, in ten-millionths).
C1_CombinedScoreWeights ==
    SearchDone =>
        \A k \in DOMAIN ret.value :
            /\ ret.value[k].keyword_score = KeywordScoreOf(ret.value[k])
            /\ ret.value[k].tfidf_score = TfidfScoreOf(ret.value[k])
            /\ ret.value[k].combined_score =
                   6 * ret.value[k].keyword_score
                   + 4 * ret.value[k].tfidf_score

\* A search has returned a record whose two scores are both positive and
\* differ.
C1_Witness ==
    /\ SearchDone
    /\ \E k \in DOMAIN ret.value :
          /\ ret.value[k].keyword_score > 0
          /\ ret.value[k].tfidf_score > 0
          /\ ret.value[k].keyword_score # ret.value[k].tfidf_score

\* C2: the list returned by search_literature is sorted non-increasing by
\* combined_score and holds no record whose combined_score is 0.1 or less.
C2_SortedAboveThreshold ==
    SearchDone =>
        /\ \A k \in DOMAIN ret.value : ret.value[k].combined_score > Micro
        /\ \A j, k \in DOMAIN ret.value :
              j < k => ret.value[j].combined_score >= ret.value[k].combined_score

\* A search has returned two records whose combined scores differ, the file
\* of the better one coming later in the directory.
C2_Witness ==
    /\ SearchDone
    /\ Len(ret.value) >= 2
    /\ ret.value[1].combined_score > ret.value[2].combined_score
    /\ \E i, j \in DOMAIN SupportedFiles :
          /\ i < j
          /\ SupportedFiles[j] = ret.value[1].file_path
          /\ SupportedFiles[i] = ret.value[2].file_path

\* C8: search_literature called with an empty keyword list on an existing
\* directory returns normally, and what it returns is the empty list.
C8_EmptyKeywords ==
    (SearchDone /\ dir_exists /\ call.keywords = <<>>) =>
        ret = Returned(<<>>)

\* A search with no keywords has gone through a directory that holds a
\* document it could read and score.
C8_Witness ==
    /\ SearchDone
    /\ dir_exists
    /\ call.keywords = <<>>
    /\ Len(FullCorpus) > 0
    /\ log.reads > Len(SupportedFiles)

\* C9: a call of _get_or_extract_metadata with use_cache=True for a file
\* whose cache file holds unparseable JSON returns what extract_metadata_fast
\* yields for the file, and leaves the cache file holding that metadata.
C9_CorruptCacheOverwritten ==
    [][(/\ pc = "idle"
        /\ pc' = "done"
        /\ call'.op = "get_or_extract"
        /\ call'.use_cache
        /\ store[MetadataFile(call'.file_path).name] = CorruptFile)
       => (/\ ret' = Returned(extract_metadata_fast(files, call'.file_path))
           /\ store'[MetadataFile(call'.file_path).name]
                  = JsonFile(extract_metadata_fast(files, call'.file_path)))
      ]_vars

\* C10: when the literature directory does not exist, search_literature
\* returns the empty list and preprocess_literature_metadata returns; neither
\* raises, reads a file or writes a cache entry.
C10_MissingDirectory ==
    (pc = "done" /\ ~dir_exists /\ call.op \in {"search", "preprocess"}) =>
        /\ ret = Returned(<<>>)
        /\ log.reads = 0
        /\ log.writes = 0

\* One of the two calls has ended on a missing directory, with the error
\* logged, while the cache holds a file.
C10_Witness ==
    /\ pc = "done"
    /\ ~dir_exists
    /\ call.op \in {"search", "preprocess"}
    /\ log.errors = 1
    /\ \E n \in CacheNames : store[n] # NoFile


(***************************************************************************)
(* Properties of calculate_keyword_match_score, under SpecMatch             *)
(***************************************************************************)

\* kw occurs in text as a whole word: an occurrence with no word character
\* right before it and none right after it.
OccursWholeWord(kw, text) ==
    \E p \in 0..(Len(text) - Len(kw)) :
        /\ Slice(text, p, p + Len(kw)) = kw
        /\ CharAt(text, p) \notin WordChars
        /\ CharAt(text, p + Len(kw) + 1) \notin WordChars

\* C3: calculate_keyword_match_score returns a value in [0, 1], and for a
\* keyword list that is not empty (for the empty one the score is 0) it
\* returns 1 if and only if every keyword of the expanded list occurs in the
\* text as a whole word, letter case aside.
C3_KeywordScoreOneIffAllMatch ==
    fn.op = "match" =>
        /\ fn.score \in 0..Micro
        /\ fn.expanded # <<>> =>
              (fn.score = Micro <=>
                  \A i \in DOMAIN fn.expanded :
                      OccursWholeWord(StrLower(fn.expanded[i]),
                                      StrLower(fn.text)))

(***************************************************************************)
(* Properties of the scores of one document, under SpecScore                *)
(***************************************************************************)

\* The keyword tokens a document holds, and the positions that hold one.
KeywordTokensHeld(doc) == Range(doc) \cap Range(KeywordWords(fn.keywords))

KeywordPositions(doc) ==
    {i \in DOMAIN doc : doc[i] \in Range(KeywordWords(fn.keywords))}

\* The corpus documents a token occurs in.
CorpusDocsWith(w) ==
    {i \in DOMAIN fn.corpus : Contains(StrLower(fn.corpus[i]), w)}

MoreDistinctKeywordTokens ==
    /\ fn.op = "scored"
    /\ Cardinality(KeywordTokensHeld(fn.doc))
           > Cardinality(KeywordTokensHeld(fn.before))

\* C4 as the specification states it: for a fixed corpus the tf-idf score
\* is 0 for a document that holds no keyword token, and it is strictly
\* greater once the document holds one more distinct keyword token.
C4_TfidfStrictlyIncreases ==
    /\ (fn.op = "scored" /\ KeywordTokensHeld(fn.doc) = {})
           => fn.scores.tfidf_score = 0
    /\ MoreDistinctKeywordTokens
           => fn.scores.tfidf_score > fn.scores_before.tfidf_score

\* C4 as the code has it: for a fixed corpus and a fixed document length the
\* tf-idf score is 0 for a document that holds no keyword token; a keyword
\* token the document did not hold, put in the place of a token of no
\* keyword, never lowers the score, and it raises the score exactly when it
\* occurs in at least one and not in all of the corpus documents.
C4_TfidfIncreasesWithIdf ==
    /\ (fn.op = "scored" /\ KeywordTokensHeld(fn.doc) = {})
           => fn.scores.tfidf_score = 0
    /\ MoreDistinctKeywordTokens =>
           /\ fn.scores.tfidf_score >= fn.scores_before.tfidf_score
           /\ fn.scores.tfidf_score > fn.scores_before.tfidf_score
                  <=> \E w \in KeywordTokensHeld(fn.doc)
                                   \ KeywordTokensHeld(fn.before) :
                          /\ CorpusDocsWith(w) # {}
                          /\ CorpusDocsWith(w) # DOMAIN fn.corpus

\* A document has gained a distinct keyword token and its tf-idf score has
\* risen, in a corpus of several documents.
C4_Witness ==
    /\ MoreDistinctKeywordTokens
    /\ Len(fn.corpus) > 1
    /\ fn.scores_before.tfidf_score > 0
    /\ fn.scores.tfidf_score > fn.scores_before.tfidf_score

HoldsKeywordFiveTimes(k) ==
    /\ TokenCount(StrLower(files[k].content)) = 100
    /\ CountOf(StrLower(files[k].content), StrLower(call.keywords[1])) = 5

HoldsKeywordNever(k) ==
    CountOf(StrLower(files[k].content), StrLower(call.keywords[1])) = 0

\* The directory of scenario 1, with its k-th document the one that holds
\* the keyword.
Scenario1At(k) ==
    /\ SearchDone
    /\ Len(call.keywords) = 1
    /\ Len(files) = 3
    /\ HoldsKeywordFiveTimes(k)
    /\ \A j \in DOMAIN files \ {k} : HoldsKeywordNever(j)

\* search_literature has scored the k-th document above 0.1 and every other
\* document lower than it (a document that got no record scored 0.1 or less).
ScoredHighest(k) ==
    \E r \in DOMAIN matched_literature :
        /\ matched_literature[r].file_path = files[k].path
        /\ \A o \in DOMAIN matched_literature \ {r} :
              matched_literature[o].combined_score
                  < matched_literature[r].combined_score

\* No token of the k-th document is a token of an expanded keyword.
HoldsNoExpandedKeyword(k) ==
    Range(Tokens(StrLower(files[k].content)))
        \cap Range(KeywordWords(expand_keywords_with_synonyms(
                                    call.keywords, GeneralSynonyms))) = {}

\* C6 as the specification states it: of three documents, the one that
\* holds the keyword five times in a hundred words gets a combined score
\* strictly greater than the two that do not hold the keyword.
C6_KeywordDocumentRanksFirst ==
    \A k \in DOMAIN files : Scenario1At(k) => ScoredHighest(k)

\* C6 as the code has it: the same, when the two other documents hold no
\* token of the expanded keywords (the keyword and its synonyms).
C6_KeywordDocumentRanksFirstNoSynonyms ==
    \A k \in DOMAIN files :
        (/\ Scenario1At(k)
         /\ \A j \in DOMAIN files \ {k} : HoldsNoExpandedKeyword(j))
            => ScoredHighest(k)

\* The search of scenario 1 has ended with a record for the document that
\* holds the keyword, next to two documents without a token of the expanded
\* keywords, one of them holding the keyword inside a longer word.
C6_Witness ==
    \E k \in DOMAIN files :
        /\ Scenario1At(k)
        /\ \A j \in DOMAIN files \ {k} : HoldsNoExpandedKeyword(j)
        /\ \E j \in DOMAIN files \ {k} :
              Contains(StrLower(files[j].content), StrLower(call.keywords[1]))
        /\ \E r \in DOMAIN matched_literature :
              /\ matched_literature[r].file_path = files[k].path
              /\ matched_literature[r].tfidf_score > 0

(***************************************************************************)
(* Properties of extract_metadata_fast, under SpecExtract                   *)
(***************************************************************************)

\* A text without its white space.
WithoutSpace(s) == Join(SplitOn(s, WhiteChars), "")

Scenario2Document == "Abstract: This paper studies X.\nIntroduction..."

\* C7: for the document whose first line is "Abstract: This paper studies
\* X." and whose second line is "Introduction...", extract_metadata_fast
\* yields the abstract "This paper studies X.", white space aside.
C7_AbstractOnMarkerLine ==
    (fn.op = "extracted" /\ files[1].content = Scenario2Document)
        => WithoutSpace(fn.metadata.abstract)
               = WithoutSpace("This paper studies X.")

(***************************************************************************)
(* Properties of the metadata cache: _get_or_extract_metadata and           *)
(* preprocess_literature_metadata, under Spec                               *)
(***************************************************************************)

\* A call of _get_or_extract_metadata has just ended.
GotOrExtracted ==
    /\ pc = "idle"
    /\ pc' = "done"
    /\ call'.op = "get_or_extract"

\* C11: once _get_or_extract_metadata has extracted the metadata of a file
\* and saved it, loading the cache file of that file the way the service
\* loads it gives back the identical metadata object.
C11_SaveLoadRoundTrip ==
    [][(GotOrExtracted /\ log'.reads = 1)
       => CacheLookup(store', call'.file_path, TRUE)
              = [hit |-> TRUE, metadata |-> ret'.value]
      ]_vars

\* C12: a call of _get_or_extract_metadata with use_cache=True for a file
\* whose cache file parses to an object with a non-empty title returns that
\* object as it is, reads no source file and leaves the cache alone, whatever
\* the source file holds now.
C12_CacheHitVerbatim ==
    [][(/\ GotOrExtracted
        /\ call'.use_cache
        /\ store[MetadataFile(call'.file_path).name].kind = "json"
        /\ "title" \in DOMAIN store[MetadataFile(call'.file_path).name].data
        /\ store[MetadataFile(call'.file_path).name].data.title # "")
       => (/\ ret' = Returned(store[MetadataFile(call'.file_path).name].data)
           /\ log'.reads = 0
           /\ store' = store)
      ]_vars

\* C13: a call of _get_or_extract_metadata that finds no cached object to
\* return gives what extract_metadata_fast yields for the file, and afterwards
\* the cache file of the file holds exactly the metadata returned.  (The
\* cache directory here takes every write, so no write is refused.)
C13_MissWritesThrough ==
    [][(/\ GotOrExtracted
        /\ ~CacheLookup(store, call'.file_path, call'.use_cache).hit)
       => (/\ ret' = Returned(extract_metadata_fast(files, call'.file_path))
           /\ store'[MetadataFile(call'.file_path).name]
                  = JsonFile(ret'.value))
      ]_vars

\* C14: preprocess_literature_metadata on an existing directory leaves every
\* supported file with a cache entry: an entry that was there stays as it was
\* unless force_update is set, and an entry that was missing, or any entry
\* under force_update, holds the fresh extraction of a supported file of that
\* stem.
C14_PreprocessFillsCache ==
    [][(/\ pc = "idle"
        /\ pc' = "done"
        /\ call'.op = "preprocess"
        /\ dir_exists)
       => \A k \in DOMAIN SupportedFiles :
              /\ store'[MetadataFile(SupportedFiles[k]).name].kind # "absent"
              /\ IF store[MetadataFile(SupportedFiles[k]).name].kind # "absent"
                    /\ ~call'.force_update
                 THEN store'[MetadataFile(SupportedFiles[k]).name]
                          = store[MetadataFile(SupportedFiles[k]).name]
                 ELSE \E j \in DOMAIN SupportedFiles :
                          /\ MetadataFile(SupportedFiles[j])
                                 = MetadataFile(SupportedFiles[k])
                          /\ store'[MetadataFile(SupportedFiles[k]).name]
                                 = JsonFile(extract_metadata_fast(files,
                                                SupportedFiles[j]))
      ]_vars

(***************************************************************************)
(* Properties of the second pass and the result of search_literature,       *)
(* under Spec                                                               *)
(***************************************************************************)

\* The combined score of the file at path p for the call in progress.
CombinedScoreAt(p) ==
    CombinedScore(KeywordScoreOf([file_path |-> p]),
                  TfidfScoreOf([file_path |-> p]))

\* The paths of the records of a list, in the order of the list.
FilePathsOf(records) == [k \in DOMAIN records |-> records[k].file_path]

\* C15: a search on an existing directory returns normally whatever files
\* fail, and every file that can be read and scores above the threshold has
\* its record among the matches, in directory order: a file that fails is
\* passed over and the files after it are still processed.
C15_FailureIsolation ==
    (SearchDone /\ dir_exists) =>
        /\ ret.status = "returned"
        /\ FilePathsOf(matched_literature)
               = SelectSeq(ReadablePaths,
                           LAMBDA p : AboveThreshold(CombinedScoreAt(p)))

\* A search has returned the record of a file that comes after a file whose
\* reading raised, both failures having been logged.
C15_Witness ==
    /\ SearchDone
    /\ log.warnings >= 2
    /\ \E i, j \in DOMAIN SupportedFiles :
          /\ i < j
          /\ read_file_content(files, SupportedFiles[i]).status = "raise"
          /\ \E k \in DOMAIN ret.value :
                ret.value[k].file_path = SupportedFiles[j]

\* C16: search_literature returns at most max_results records, as many as
\* there are matches when these are fewer, all of them matches, and no match
\* left out has a higher combined_score than a record returned.
C16_TopMaxResults ==
    SearchDone =>
        /\ Len(ret.value) = Min(call.max_results, Len(matched_literature))
        /\ Range(ret.value) \subseteq Range(matched_literature)
        /\ \A k \in DOMAIN matched_literature :
              matched_literature[k] \notin Range(ret.value) =>
                  \A j \in DOMAIN ret.value :
                      ret.value[j].combined_score
                          >= matched_literature[k].combined_score

\* A search has left out a match, the first one found, whose combined_score
\* is lower than that of the record returned.
C16_Witness ==
    /\ SearchDone
    /\ Len(matched_literature) > call.max_results
    /\ Len(ret.value) = call.max_results
    /\ matched_literature[1] \notin Range(ret.value)
    /\ \A j \in DOMAIN ret.value :
          ret.value[j].combined_score > matched_literature[1].combined_score

(***************************************************************************)
(* extract_metadata_with_llm and extract_relevant_passages applied alone,   *)
(* for each way the language-model service can answer                       *)
(***************************************************************************)

\* The most records a literature list given to extract_relevant_passages
\* holds.
MaxLiterature == 2

\* What the client of a QwenService does with the messages of
\* extract_metadata: it raises, or it returns a text, listed here with the
\* value json.loads makes of it.
ChatReplies ==
    <<[text |-> "{\"title\": \"A Study of X\", \"authors\": [\"Ann\"], \"abstract\": \"\", \"keywords\": [], \"year\": \"2020\"}",
       json |-> [kind |-> "object",
                 value |-> [title |-> "A Study of X", authors |-> <<"Ann">>,
                            abstract |-> "", keywords |-> <<>>,
                            year |-> "2020"]]],
      [text |-> "{\"title\": \"T\"}",
       json |-> [kind |-> "object", value |-> [title |-> "T"]]],
      [text |-> "[]", json |-> [kind |-> "array"]],
      [text |-> "Here it is:\n\"Title\": \"A Study of X\",\n\"year\" : \"2020\"",
       json |-> [kind |-> "invalid"]],
      [text |-> "title:   \nyear: 20", json |-> [kind |-> "invalid"]],
      [text |-> "I cannot help with that.", json |-> [kind |-> "invalid"]]>>

ChatOutcomes ==
    {[status |-> "raise"]}
    \cup {[status |-> "ok", reply |-> ChatReplies[k]] : k \in DOMAIN ChatReplies}

\* What a file given to extract_metadata_with_llm can be.
MetadataFileChoices ==
    {[kind |-> "text", content |-> DocA],
     [kind |-> "text", content |-> ""],
     [kind |-> "binary", content |-> ""],
     [kind |-> "locked", content |-> ""]}

\* A document of several sentences, and what a file of a literature list
\* can be.
PassageDoc ==
    "Graphs are studied here. The data is sparse! Short. Nothing else of note? An algorithm on graph data ends it"

\* A document of one sentence of more than 300 characters.
LongDoc == Join(<<Twenty, Twenty, Twenty, Twenty>>, " ")

PassageFiles ==
    <<[kind |-> "text", content |-> PassageDoc],
      [kind |-> "text", content |-> LongDoc],
      [kind |-> "locked", content |-> ""]>>

\* The files of a literature list: the files above from one of them on, in
\* turn.
PassageListing(shift) ==
    [k \in 1..MaxLiterature |->
        [path |-> PathPool[k],
         kind |-> PassageFiles[((k + shift - 1) % Len(PassageFiles)) + 1].kind,
         content |->
             PassageFiles[((k + shift - 1) % Len(PassageFiles)) + 1].content]]

PassageKeywordLists == {<<"graph", "Data">>, <<"algorithm">>}

\* A text of 301 characters.
LongText == Slice(LongDoc, 0, 301)

\* What a service other than a QwenService does when asked for the passages
\* of a document: chat raises, parse_json_response raises, or a value is
\* parsed.  The first is a reply of 21 passages, the k-th of relevance_score
\* 0.06 * k: more than the 20 that are returned, in ascending order, the
\* last five above 1.
PassageReplies ==
    {[status |-> "parsed",
      data |-> [kind |-> "object",
                value |-> [passages |->
                    [k \in 1..21 |->
                        [text |-> "Graphs are studied",
                         relevance_score |-> Number(60000 * k)]]]]]} \cup
    {[status |-> "chat_raises"],
     [status |-> "parse_raises"],
     [status |-> "parsed", data |-> [kind |-> "array"]],
     [status |-> "parsed",
      data |-> [kind |-> "object",
                value |-> [passages |->
                    <<[text |-> "Graphs are studied", relevance_score |-> Number(900000),
                       related_keywords |-> <<"graph">>],
                      [text |-> "The data is sparse"]>>]]],
     [status |-> "parsed",
      data |-> [kind |-> "object",
                value |-> [passages |->
                    <<[text |-> "Graphs are studied", relevance_score |-> Number(900000)],
                      [relevance_score |-> Number(800000)]>>]]],
     [status |-> "parsed",
      data |-> [kind |-> "object",
                value |-> [passages |->
                    <<[text |-> LongText, relevance_score |-> Number(700000)]>>]]],
     [status |-> "parsed",
      data |-> [kind |-> "object",
                value |-> [passages |->
                    <<[text |-> "The data is sparse",
                       relevance_score |-> [type |-> "null"]]>>]]]}

\* The records of a literature list, as search_literature returns them; the
\* second is of a file nothing was found in.
LiteratureOf(k) ==
    IF k % 2 = 1
    THEN [title |-> "Graphs and data", authors |-> <<"Ann", "Bob", "Cy", "Di">>,
          abstract |-> "On graphs.", keywords |-> <<"graph">>, year |-> "2020",
          file_path |-> PathPool[k], extraction_method |-> "fast_local",
          keyword_score |-> Micro, tfidf_score |-> 0,
          combined_score |-> 6 * Micro, matched_keywords |-> <<"graph">>]
    ELSE [title |-> "Notes", authors |-> <<>>,
          abstract |-> "", keywords |-> <<>>, year |-> "",
          file_path |-> PathPool[k], extraction_method |-> "fast_local",
          keyword_score |-> Micro \div 2, tfidf_score |-> 0,
          combined_score |-> 3 * Micro, matched_keywords |-> <<"data">>]

InitLlmMetadata ==
    /\ \E choice \in MetadataFileChoices :
          files = <<[path |-> PathPool[1], kind |-> choice.kind,
                     content |-> choice.content]>>
    /\ \E llm_service \in {"none", "qwen"}, chat \in ChatOutcomes :
          fn = [op |-> "metadata_args", file_path |-> PathPool[1],
                llm_service |-> llm_service, chat |-> chat]

InitLlmPassages ==
    /\ \E shift \in 0..(Len(PassageFiles) - 1) : files = PassageListing(shift)
    /\ \E keywords \in PassageKeywordLists,
          max_literature \in {1, 50},
          llm_service \in {"none", "qwen", "other"},
          replies \in [1..MaxLiterature -> PassageReplies] :
          /\ llm_service # "other" =>
                 \A k \in DOMAIN replies : replies[k].status = "chat_raises"
          /\ fn = [op |-> "passages_args",
                   literature_list |->
                       [k \in 1..MaxLiterature |-> LiteratureOf(k)],
                   keywords |-> keywords,
                   max_literature |-> max_literature,
                   passages_per_literature |-> 2,
                   llm_service |-> llm_service,
                   replies |-> replies]

InitLlm ==
    /\ dir_exists = TRUE
    /\ store = [n \in CacheNames |-> NoFile]
    /\ InitIdle
    /\ InitLlmMetadata \/ InitLlmPassages

ExtractWithLlm ==
    /\ fn.op = "metadata_args"
    /\ fn' = [op |-> "metadata",
              file_path |-> fn.file_path,
              llm_service |-> fn.llm_service,
              chat |-> fn.chat,
              metadata |-> extract_metadata_with_llm(files, fn.file_path,
                               fn.llm_service, fn.chat)]
    /\ UNCHANGED <<world, store, pc, call, locals, ret, log>>

\* The call of extract_relevant_passages; found keeps the passages of each
\* record handled, before the sort.
ExtractPassages ==
    /\ fn.op = "passages_args"
    /\ fn' = [fn EXCEPT !.op = "passages"] @@
             [found |->
                  [i \in 1..Min(fn.max_literature, Len(fn.literature_list)) |->
                      PassagesOfDocument(files, fn.keywords,
                          fn.literature_list[i], fn.passages_per_literature,
                          fn.llm_service, fn.replies[i])],
              result |->
                  extract_relevant_passages(files, fn.literature_list,
                      fn.keywords, fn.max_literature,
                      fn.passages_per_literature, fn.llm_service,
                      fn.replies)]
    /\ UNCHANGED <<world, store, pc, call, locals, ret, log>>

NextLlm ==
    \/ ExtractWithLlm
    \/ ExtractPassages

SpecLlm == InitLlm /\ [][NextLlm]_vars

(***************************************************************************)
(* Properties of extract_metadata_with_llm and extract_relevant_passages,   *)
(* under SpecLlm                                                            *)
(***************************************************************************)

\* The fields of the metadata schema asked of the language model.
SchemaFields == {"title", "authors", "abstract", "keywords", "year"}

\* The reply of the language model parses as the metadata schema.
ParsesAsSchema(chat) ==
    /\ chat.status = "ok"
    /\ chat.reply.json.kind = "object"
    /\ SchemaFields \subseteq DOMAIN chat.reply.json.value

\* C17: extract_metadata_with_llm returns what extract_metadata_fast returns
\* for the file whenever no language-model service is configured, the call of
\* the language model fails, or its reply does not parse as the metadata
\* schema.
C17_LlmFailureFallsBack ==
    (/\ fn.op = "metadata"
     /\ fn.llm_service = "none" \/ ~ParsesAsSchema(fn.chat))
    => fn.metadata = extract_metadata_fast(files, fn.file_path)

\* The fields of a metadata record and of a passage.
MetadataFields == SchemaFields \cup {"file_path", "extraction_method"}

PassageFields ==
    {"text", "source_title", "source_authors", "source_year",
     "relevance_score", "related_keywords", "citation", "source_file",
     "combined_score"}

\* C18: every metadata record returned by extract_metadata_with_llm (which
\* is the record of extract_metadata_fast when no service is configured) has
\* all the fields of a metadata record, and every passage returned by
\* extract_relevant_passages has all the fields of a passage, whatever the
\* file holds and whatever the language model does.
C18_RecordShapes ==
    /\ fn.op = "metadata" => MetadataFields \subseteq DOMAIN fn.metadata
    /\ fn.op = "passages" =>
           \A k \in DOMAIN fn.result.passages :
               PassageFields \subseteq DOMAIN fn.result.passages[k]

\* The language-model path fails for the i-th record: the call raises (as
\* every call of a QwenService with two arguments does), the reply does not
\* parse, or what it parses to is not the structure asked for: no object, a
\* passage without text, a relevance_score that is no number.
LlmPathFailed(i) ==
    \/ fn.llm_service = "qwen"
    \/ fn.replies[i].status # "parsed"
    \/ fn.replies[i].data.kind # "object"
    \/ \E k \in DOMAIN Get(fn.replies[i].data.value, "passages", <<>>) :
          \/ "text" \notin DOMAIN fn.replies[i].data.value.passages[k]
          \/ Get(fn.replies[i].data.value.passages[k], "relevance_score",
                 Number(0)).type # "number"

\* C19: when extract_relevant_passages runs with a language-model service,
\* it does not raise, and the passages of every record for which the
\* language-model path fails are exactly those the fallback method gives for
\* the record.
C19_LlmPassageFailureFallsBack ==
    (fn.op = "passages" /\ fn.llm_service # "none") =>
        /\ ~fn.result.raised
        /\ \A i \in DOMAIN fn.found :
              LlmPathFailed(i) =>
                  fn.found[i] = PassagesOfDocument(files, fn.keywords,
                                    fn.literature_list[i],
                                    fn.passages_per_literature, "none",
                                    fn.replies[i])

\* C20: the text of every passage returned by extract_relevant_passages has
\* at most 300 characters.
C20_PassageTextAtMost300 ==
    fn.op = "passages" =>
        \A k \in DOMAIN fn.result.passages :
            Len(fn.result.passages[k].text) <= 300

(***************************************************************************)
(* The relevance_score and the order of the passages returned by           *)
(* extract_relevant_passages, under SpecLlm                                 *)
(***************************************************************************)

\* The passages of the i-th record are those the language model gave.
FromLlm(i) == LlmPathCompletes(fn.llm_service, fn.replies[i])

\* matches / total keyword count, capped at 1.0, of a passage of the
\* fallback method: the matched keywords are those of the sentence the
\* passage is built around, of which related_keywords keeps up to five.
FallbackScoreOf(p) ==
    Min(Micro, (Len(p.related_keywords) * Micro) \div Len(fn.keywords))

\* C21: every passage returned by extract_relevant_passages has a
\* relevance_score that is a number between 0 and 1: on the fallback path
\* the number of matched keywords divided by the number of keywords, capped
\* at 1.0, and on the language-model path the value the model gave.
C21_RelevanceInUnitInterval ==
    fn.op = "passages" =>
        /\ \A k \in DOMAIN fn.result.passages :
              /\ fn.result.passages[k].relevance_score.type = "number"
              /\ fn.result.passages[k].relevance_score.value >= 0
              /\ fn.result.passages[k].relevance_score.value <= Micro
        /\ \A i \in DOMAIN fn.found :
              ~FromLlm(i) =>
                  \A k \in DOMAIN fn.found[i] :
                      fn.found[i][k].relevance_score =
                          Number(FallbackScoreOf(fn.found[i][k]))


\* relevance_score + 0.1 * combined_score of a passage, in hundred-millionths.
SortKeyOf(p) == 100 * p.relevance_score.value + p.combined_score

\* The files of the first max_literature records of the list.
FirstFiles ==
    {fn.literature_list[i].file_path :
        i \in 1..Min(fn.max_literature, Len(fn.literature_list))}

\* C22: the list extract_relevant_passages returns has at most 20 passages,
\* is in non-increasing order of relevance_score + 0.1 * combined_score, and
\* holds only passages of the first max_literature records of the list.
C22_RankedTop20 ==
    (fn.op = "passages" /\ ~fn.result.raised) =>
        /\ Len(fn.result.passages) <= 20
        /\ \A j, k \in DOMAIN fn.result.passages :
              j < k => SortKeyOf(fn.result.passages[j]) >=
                           SortKeyOf(fn.result.passages[k])
        /\ \A k \in DOMAIN fn.result.passages :
              fn.result.passages[k].source_file \in FirstFiles

\* A call with max_literature = 1 on a list of two records, both with
\* passages to give: the 21 passages of the first came in ascending order,
\* and the 20 of highest score are returned, the highest first.
C22_Witness ==
    /\ fn.op = "passages"
    /\ fn.max_literature = 1
    /\ Len(fn.literature_list) = 2
    /\ Len(fn.found[1]) = 21
    /\ SortKeyOf(fn.found[1][1]) < SortKeyOf(fn.found[1][2])
    /\ PassagesOfDocument(files, fn.keywords, fn.literature_list[2],
           fn.passages_per_literature, "none", fn.replies[2]) # <<>>
    /\ Len(fn.result.passages) = 20
    /\ fn.result.passages[1] = fn.found[1][21]
    /\ fn.result.passages[20] = fn.found[1][2]


(***************************************************************************)
(* _generate_citation (literature_service.py, lines 511-532) and            *)
(* generate_citation (text_utils.py, lines 91-104), which is the same       *)
(* code, applied alone                                                      *)
(***************************************************************************)

\* The most authors a record of the model has.
MaxAuthors == 4

AuthorPool == <<"Ann", "Bob Lee", "Cy">>

\* The records differ in the authors and in whether they hold a title and
\* a year.
InitCitation ==
    /\ InitAlone
    /\ \E q \in SeqsUpTo(AuthorPool, MaxAuthors),
          title \in {[title |-> "Graphs and data"], EmptyDict},
          year \in {[year |-> "2020"], EmptyDict} :
          fn = [op |-> "citation_args",
                literature |->
                    [authors |-> Picked(AuthorPool, q)] @@ title @@ year]

Cite ==
    /\ fn.op = "citation_args"
    /\ fn' = [op |-> "citation", literature |-> fn.literature,
              citation |-> generate_citation(fn.literature)]
    /\ UNCHANGED <<world, store, pc, call, locals, ret, log>>

NextCitation == Cite

SpecCitation == InitCitation /\ [][NextCitation]_vars

\* The names joined by a separator.
RECURSIVE Separated(_, _)
Separated(names, sep) ==
    IF Len(names) = 0 THEN ""
    ELSE IF Len(names) = 1 THEN names[1]
    ELSE names[1] \o sep \o Separated(Tail(names), sep)

\* What stands for the authors of a record: the placeholder exactly when
\* there are none, else the first three at most, with the mark after them
\* exactly when there are more than three.
AuthorsShown(authors, sep, mark) ==
    IF Len(authors) = 0 THEN ZhUnknownAuthor
    ELSE Separated(SubSeq(authors, 1, Min(3, Len(authors))), sep)
         \o (IF Len(authors) > 3 THEN mark ELSE "")

\* C23 as the specification words it: the citation is the authors (at most
\* the first three, joined by commas, 'et al.' appended exactly when there
\* are more than three, the unknown-author placeholder exactly when there
\* are none), then directly the year in parentheses, a full stop, a space
\* and the title: "<authors>(<year>). <title>", whether the comma and the
\* 'et al.' are written with or without a space.
C23_CitationFormat ==
    fn.op = "citation" =>
        \E sep \in {",", ", "}, mark \in {"et al.", " et al."} :
            fn.citation =
                AuthorsShown(fn.literature.authors, sep, mark)
                \o "(" \o Get(fn.literature, "year", "") \o "). "
                \o Get(fn.literature, "title", ZhUnknownTitle)

\* C23, as the code has it: the first three authors at most are joined by
\* ", ", " et al." is appended exactly when there are more than three, the
\* unknown-author placeholder stands exactly when there are none, and a
\* space stands between the authors and the year in parentheses:
\* "<authors> (<year>). <title>".
C23_CitationFormatSpaced ==
    fn.op = "citation" =>
        fn.citation =
            AuthorsShown(fn.literature.authors, ", ", " et al.")
            \o " (" \o Get(fn.literature, "year", "") \o "). "
            \o Get(fn.literature, "title", ZhUnknownTitle)

\* The citation of a record of four authors.
C23_Witness ==
    /\ fn.op = "citation"
    /\ fn.literature.authors = <<"Ann", "Bob Lee", "Cy", "Ann">>
    /\ fn.citation = "Ann, Bob Lee, Cy et al. (2020). Graphs and data"


(***************************************************************************)
(* expand_keywords_with_synonyms (algorithm_utils.py, lines 16-26) and      *)
(* expand_keywords (text_utils.py, lines 78-88), which is the same code,    *)
(* applied alone to the table of get_general_synonyms                       *)
(***************************************************************************)

\* The most keywords of a list.
MaxKeywords == 3

\* Keys of the table in lower and in mixed case, a synonym of one of them,
\* and words the table does not hold.
ExpandPool == <<"Data", "data", "algorithm", "method", "graph", "C#">>

InitExpand ==
    /\ InitAlone
    /\ \E q \in SeqsUpTo(ExpandPool, MaxKeywords) :
          fn = [op |-> "expand_args", keywords |-> Picked(ExpandPool, q)]

Expand ==
    /\ fn.op = "expand_args"
    /\ fn' = [op |-> "expand", keywords |-> fn.keywords,
              expanded |-> expand_keywords_with_synonyms(fn.keywords,
                               GeneralSynonyms)]
    /\ UNCHANGED <<world, store, pc, call, locals, ret, log>>

NextExpand == Expand

SpecExpand == InitExpand /\ [][NextExpand]_vars

\* The keyword is a key of the table once lower-cased.
InTable(keyword) == StrLower(keyword) \in DOMAIN GeneralSynonyms

\* C24: expand_keywords_with_synonyms returns exactly the keywords given and
\* the synonyms the table holds for every keyword whose lower-cased form is
\* a key of it: every keyword given is kept, a keyword the table does not
\* hold adds nothing, no other string appears, and no string appears twice.
C24_ExpandExactly ==
    fn.op = "expand" =>
        /\ \A i \in DOMAIN fn.keywords :
              /\ fn.keywords[i] \in Range(fn.expanded)
              /\ InTable(fn.keywords[i]) =>
                     Range(GeneralSynonyms[StrLower(fn.keywords[i])])
                         \subseteq Range(fn.expanded)
        /\ \A k \in DOMAIN fn.expanded :
              \/ fn.expanded[k] \in Range(fn.keywords)
              \/ \E i \in DOMAIN fn.keywords :
                    /\ InTable(fn.keywords[i])
                    /\ fn.expanded[k] \in
                           Range(GeneralSynonyms[StrLower(fn.keywords[i])])
        /\ \A j, k \in DOMAIN fn.expanded :
              fn.expanded[j] = fn.expanded[k] => j = k

\* A key in mixed case given twice, with a word the table does not hold:
\* the two keywords and the four synonyms of "data" come back, each once.
C24_Witness ==
    /\ fn.op = "expand"
    /\ fn.keywords = <<"Data", "graph", "Data">>
    /\ Len(fn.expanded) = 6
    /\ Range(fn.expanded) =
           {"Data", "graph", "information", "dataset", "statistics",
            "evidence"}


(***************************************************************************)
(* The corpus of search_literature, under Spec                              *)
(***************************************************************************)

\* The file at the position of the second pass is one that gets scored.
ScoringReadable ==
    /\ pc = "score"
    /\ idx <= Len(SupportedFiles)
    /\ read_file_content(files, SupportedFiles[idx]).status = "ok"
    /\ read_file_content(files, SupportedFiles[idx]).content # ""

\* C25: in search_literature no file is scored while the first pass
\* collects the corpus, and from the first file scored to the last the
\* corpus is the list of all documents the scan has read, the file being
\* scored among them, and does not change.
C25_CorpusCompleteBeforeScoring ==
    [][/\ pc = "collect" => matched_literature' = <<>>
       /\ pc = "score" =>
              /\ all_documents = FullCorpus
              /\ all_documents' = all_documents
              /\ ScoringReadable =>
                     read_file_content(files, SupportedFiles[idx]).content
                         \in Range(all_documents)]_vars

\* The first of two documents has been scored and matched, against a corpus
\* that already held the second, which is still to be scored.
C25_Witness ==
    /\ pc = "score"
    /\ idx = 2
    /\ ScoringReadable
    /\ Len(matched_literature) = 1
    /\ Len(all_documents) = 2
    /\ all_documents[1] # all_documents[2]
    /\ all_documents[2] = read_file_content(files, SupportedFiles[2]).content


(***************************************************************************)
(* _extract_passages_fallback (literature_service.py, lines 397-461)        *)
(* applied alone                                                            *)
(***************************************************************************)

\* The most sentences of a document.
MaxSentences == 3

\* A sentence of 191 characters: two of them side by side make a window of
\* more than 300.
LongSentence == Twenty \o " " \o Twenty

\* Sentences of two, one and no keyword, one of them shorter than 10
\* characters, an empty one and a long one.
SentencePool ==
    <<"AI and ML", "Models of AI are studied", "Nothing of note here",
      "ML and AI in practice", "", LongSentence>>

FallbackKeywordLists == {<<"AI", "ML">>, <<"studied">>}

InitFallback ==
    /\ InitAlone
    /\ \E q \in SeqsUpTo(SentencePool, MaxSentences),
          keywords \in FallbackKeywordLists,
          max_passages \in {1, 2} :
          fn = [op |-> "fallback_args",
                content |-> Join(Picked(SentencePool, q), ". "),
                keywords |-> keywords,
                max_passages |-> max_passages]

\* The call of _extract_passages_fallback; sentences is the list of line
\* 412 and picked the 'index' of the items of sentence_scores[:max_passages].
Fallback ==
    /\ fn.op = "fallback_args"
    /\ fn' = [op |-> "fallback",
              content |-> fn.content,
              keywords |-> fn.keywords,
              max_passages |-> fn.max_passages,
              sentences |-> Sentences(fn.content),
              picked |-> Take(RankedSentences(Sentences(fn.content), fn.keywords,
                                  KeptSentences(Sentences(fn.content),
                                                fn.keywords)),
                              fn.max_passages),
              passages |-> extract_passages_fallback(fn.content, fn.keywords,
                               LiteratureOf(1), fn.max_passages)]
    /\ UNCHANGED <<world, store, pc, call, locals, ret, log>>

NextFallback == Fallback

SpecFallback == InitFallback /\ [][NextFallback]_vars

\* The number of keywords found in the k-th sentence, letter case ignored.
Hits(k) ==
    Cardinality({i \in DOMAIN fn.keywords :
        Contains(StrLower(fn.sentences[k]), StrLower(fn.keywords[i]))})

\* The k-th sentence has at least 10 characters once stripped.
LongEnough(k) == Len(Strip(fn.sentences[k])) >= 10

\* The k-th sentence stripped, with the separator, if there is such a
\* sentence and it is not blank.
Neighbour(k, before, after) ==
    IF k \in DOMAIN fn.sentences /\ Strip(fn.sentences[k]) # ""
    THEN before \o Strip(fn.sentences[k]) \o after
    ELSE ""

\* The sentence with the one before and the one after it, cut to 300.
Window(k) ==
    Slice(Neighbour(k - 1, "", ZhStop) \o Strip(fn.sentences[k])
              \o Neighbour(k + 1, ZhStop, ""),
          0, 300)

\* What the passages have in common whichever sentences may be left out: at
\* most max_passages of them, each around a sentence of its own that holds
\* a keyword, its text the window of that sentence.
PassagesAroundSentences ==
    /\ Len(fn.passages) <= fn.max_passages
    /\ Len(fn.picked) = Len(fn.passages)
    /\ \A r, s \in DOMAIN fn.picked : fn.picked[r] = fn.picked[s] => r = s
    /\ \A r \in DOMAIN fn.picked :
          /\ fn.picked[r] \in DOMAIN fn.sentences
          /\ Hits(fn.picked[r]) >= 1
          /\ fn.passages[r].text = Window(fn.picked[r])

\* C26 as the specification words it: the fallback returns at most
\* passages_per_literature passages, each around a sentence with at least
\* one keyword hit, no sentence left out has more hits than a selected one,
\* and each text is the selected sentence joined with the one before and
\* the one after it where they exist, cut to 300 characters.
C26_FallbackTopSentences ==
    fn.op = "fallback" =>
        /\ PassagesAroundSentences
        /\ \A k \in DOMAIN fn.sentences \ Range(fn.picked) :
              \A r \in DOMAIN fn.picked : Hits(k) <= Hits(fn.picked[r])

\* C26, as the code has it: the sentences of fewer than 10 characters are
\* never selected; among the others no sentence left out has more hits than
\* a selected one.  Each passage is around a sentence of at least 10
\* characters with at least one keyword hit, and its text is that sentence
\* joined by the full stop with the one before and the one after it where
\* they exist and are not blank, all stripped, cut to 300 characters.
C26_FallbackTopLongSentences ==
    fn.op = "fallback" =>
        /\ PassagesAroundSentences
        /\ \A r \in DOMAIN fn.picked : LongEnough(fn.picked[r])
        /\ \A k \in DOMAIN fn.sentences \ Range(fn.picked) :
              LongEnough(k) =>
                  \A r \in DOMAIN fn.picked : Hits(k) <= Hits(fn.picked[r])

\* Two passages came of three sentences with a keyword: the one left out
\* has fewer hits than the first selected, and the text of a passage was cut
\* to 300 characters.
C26_Witness ==
    /\ fn.op = "fallback"
    /\ fn.max_passages = 2
    /\ Len(fn.passages) = 2
    /\ \E k \in DOMAIN fn.sentences \ Range(fn.picked) :
          /\ LongEnough(k)
          /\ Hits(k) >= 1
          /\ Hits(k) < Hits(fn.picked[1])
    /\ \E r \in DOMAIN fn.passages : Len(fn.passages[r].text) = 300


(***************************************************************************)
(* Where the metadata of search_literature, of                              *)
(* preprocess_literature_metadata and of _get_or_extract_metadata comes     *)
(* from, under Spec                                                         *)
(***************************************************************************)

\* What the metadata of a file can be without a language model: what
\* extract_metadata_fast gives for it, or the object its cache file holds.
LocalMetadata(file_path) ==
    {extract_metadata_fast(files, file_path)}
    \cup (IF store[MetadataFile(file_path).name].kind = "json"
          THEN {store[MetadataFile(file_path).name].data}
          ELSE {})

\* The metadata a record of search_literature was made of.
MetadataPart(r) ==
    [f \in DOMAIN r \ {"keyword_score", "tfidf_score", "combined_score",
                       "matched_keywords"} |-> r[f]]

\* The record is made of what extract_metadata_fast gives for its file, a
\* supported file of the directory, or of what a cache file holds.
FromLocalMetadata(r) ==
    \/ /\ r.file_path \in Range(SupportedFiles)
       /\ MetadataPart(r) = extract_metadata_fast(files, r.file_path)
    \/ \E n \in CacheNames :
          store[n].kind = "json" /\ MetadataPart(r) = store[n].data

\* C27: search_literature, preprocess_literature_metadata and
\* _get_or_extract_metadata take no metadata from a language model: what
\* _get_or_extract_metadata returns, what every record of a search is made
\* of and what every cache file holds is what extract_metadata_fast gives
\* for a file or what the cache held before.
C27_MetadataWithoutLlm ==
    /\ (pc = "done" /\ call.op = "get_or_extract") =>
           ret.value \in LocalMetadata(call.file_path)
    /\ SearchDone =>
           /\ \A k \in DOMAIN matched_literature :
                 FromLocalMetadata(matched_literature[k])
           /\ Range(ret.value) \subseteq Range(matched_literature)
    /\ \A n \in CacheNames :
           store[n].kind = "json" =>
               \/ store[n].data = CachedMetadata
               \/ \E k \in DOMAIN SupportedFiles :
                     /\ MetadataFile(SupportedFiles[k]).name = n
                     /\ store[n].data =
                            extract_metadata_fast(files, SupportedFiles[k])

\* _get_or_extract_metadata has returned the metadata of a file with a
\* title, marked as extracted by the fast method.
C27_Witness ==
    /\ pc = "done"
    /\ call.op = "get_or_extract"
    /\ "title" \in DOMAIN ret.value
    /\ ret.value.extraction_method = "fast_local"
    /\ ret.value = extract_metadata_fast(files, call.file_path)


(***************************************************************************)
(* search_literature over documents that hold keywords as whole words and   *)
(* inside longer words, and over corpora of no, one and more documents      *)
(* (lines 170-211)                                                          *)
(***************************************************************************)

\* The last is an empty file, which the corpus leaves out.
MatchedDocuments ==
    <<"graphs and evidence", "Graph theory of data", "a note on rivers", "">>

MatchedKeywordLists == {<<"graph", "evidence">>, <<"Data", "c#">>}

InitMatched ==
    /\ dir_exists = TRUE
    /\ \E q \in SeqsOf(MatchedDocuments, MaxFiles) :
          files = [k \in 1..MaxFiles |->
                     [path |-> PathPool[k], kind |-> "text",
                      content |-> MatchedDocuments[q[k]]]]
    /\ store = [n \in CacheNames |-> NoFile]
    /\ InitIdle
    /\ fn = NoFn

NextMatched ==
    \/ \E keywords \in MatchedKeywordLists, use_cache \in BOOLEAN :
          SearchStart(keywords, MaxResults, use_cache)
    \/ SearchCollect
    \/ SearchExpand
    \/ SearchScore
    \/ SearchFinish

SpecMatched == InitMatched /\ [][NextMatched]_vars

\* The expanded keywords that calculate_keyword_match_score counts as
\* matched in the file of the record: those found as whole words.
WholeWordMatched(r) ==
    {expanded_keywords[i] : i \in
        {j \in DOMAIN expanded_keywords :
            WholeWordSearch(StrLower(expanded_keywords[j]),
                            StrLower(FileAt(files, r.file_path).content))}}

\* C29: in every record search_literature returns, matched_keywords holds
\* expanded keywords only and every expanded keyword the keyword score
\* counted as a whole-word match, so that it has at least keyword score
\* times the number of expanded keywords members.
C29_MatchedKeywordsCoverScore ==
    SearchDone =>
        \A k \in DOMAIN ret.value :
            /\ Range(ret.value[k].matched_keywords)
                   \subseteq Range(expanded_keywords)
            /\ WholeWordMatched(ret.value[k])
                   \subseteq Range(ret.value[k].matched_keywords)
            /\ Len(ret.value[k].matched_keywords) * Micro
                   >= ret.value[k].keyword_score * Len(expanded_keywords)

\* A record returned for the keywords graph and evidence: the file holds
\* "evidence" as a word and "graph" inside "graphs" only, the keyword score
\* is 0.5 and matched_keywords has both.
C29_Witness ==
    /\ SearchDone
    /\ \E k \in DOMAIN ret.value :
          /\ ret.value[k].keyword_score = Micro \div 2
          /\ Range(ret.value[k].matched_keywords) = {"graph", "evidence"}
          /\ WholeWordMatched(ret.value[k]) = {"evidence"}


\* A search has scored the files of the directory.
SearchScoring == SearchDone /\ dir_exists

\* Every keyword token found in the document is in at least one and at
\* most all documents of the corpus.
DfInRange(words, doc_lower) ==
    \A i \in DOMAIN words :
        CountOf(doc_lower, words[i]) > 0
        => DocsContaining(words[i], all_documents) \in 1..Len(all_documents)

\* The tf-idf score is not negative, and over a corpus of one document it is
\* 0 and the combined score is 0.6 times the keyword score.
ScoresInRange(keyword_score, tfidf_score, combined_score) ==
    /\ tfidf_score >= 0
    /\ Len(all_documents) = 1 =>
           /\ tfidf_score = 0
           /\ combined_score = 6 * keyword_score

\* The scores search_literature computes for a document, with the expanded
\* keywords and the corpus it holds (lines 194-201).
ScoresOfDocument(keyword_score, tfidf_score) ==
    ScoresInRange(keyword_score, tfidf_score,
                  CombinedScore(keyword_score, tfidf_score))

ScoredInRange(content) ==
    /\ DfInRange(KeywordWords(expanded_keywords), StrLower(content))
    /\ ScoresOfDocument(
           calculate_keyword_match_score(expanded_keywords, content),
           calculate_relevance_score(expanded_keywords, content,
                                     all_documents))

\* C28: for every file a search of search_literature has scored, every
\* keyword token found in it is in at least one and at most all documents
\* of the corpus, and the tf-idf score is not negative; when the corpus holds exactly one
\* document the tf-idf score is 0 and the combined score is 0.6 times the
\* keyword score.  The records kept carry these scores.
C28_TfidfNonNegative ==
    SearchScoring =>
        /\ \A k \in DOMAIN ReadablePaths :
              ScoredInRange(FileAt(files, ReadablePaths[k]).content)
        /\ \A k \in DOMAIN matched_literature :
              ScoresInRange(matched_literature[k].keyword_score,
                            matched_literature[k].tfidf_score,
                            matched_literature[k].combined_score)

\* A search over a corpus of one document has returned its record: the
\* keywords are in it, the tf-idf score is 0 and the combined score is 0.6
\* times the keyword score.
C28_Witness ==
    /\ SearchDone
    /\ Len(all_documents) = 1
    /\ Len(ret.value) = 1
    /\ ret.value[1].keyword_score > 0
    /\ ret.value[1].tfidf_score = 0
    /\ ret.value[1].combined_score = 6 * ret.value[1].keyword_score
    /\ \E i \in DOMAIN KeywordWords(expanded_keywords) :
          CountOf(StrLower(all_documents[1]),
                  KeywordWords(expanded_keywords)[i]) > 0

(***************************************************************************)
(* The cache file of a source file (lines 546 and 484), under Spec          *)
(***************************************************************************)

\* The stems of the paths a directory of the model can hold.
PoolStems == {PathStem(PathPool[k]) : k \in DOMAIN PathPool}

\* The cache file of file_path holds metadata with a title that was
\* extracted from another file of the same stem.
HoldsOther(file_path) ==
    /\ store[MetadataFile(file_path).name].kind = "json"
    /\ "title" \in DOMAIN store[MetadataFile(file_path).name].data
    /\ store[MetadataFile(file_path).name].data.file_path # file_path
    /\ PathStem(store[MetadataFile(file_path).name].data.file_path)
           = PathStem(file_path)

\* Two paths of the same stem have the same cache file, and the cache has
\* one file for each stem and no other.
OneCacheFilePerStem ==
    /\ \A i, j \in DOMAIN PathPool :
          PathStem(PathPool[i]) = PathStem(PathPool[j])
          <=> MetadataFile(PathPool[i]) = MetadataFile(PathPool[j])
    /\ DOMAIN store = {stem \o "_metadata.json" : stem \in PoolStems}
    /\ Cardinality({n \in DOMAIN store : store[n].kind # "absent"})
           <= Cardinality(PoolStems)

\* C30: the cache file of a source file is named by its stem alone, so two
\* supported files of the same stem have the same cache file and the cache
\* holds at most one entry for each stem after any calls; and a call of
\* _get_or_extract_metadata with use_cache for one of them, when the cache
\* file holds the metadata extracted from the other, returns that metadata,
\* file_path of the other included.
C30_StemKeyedCache ==
    [][/\ OneCacheFilePerStem
       /\ (/\ GotOrExtracted
           /\ call'.use_cache
           /\ HoldsOther(call'.file_path))
          => /\ ret' = Returned(store[MetadataFile(call'.file_path).name].data)
             /\ ret'.value.file_path # call'.file_path
      ]_vars

=============================================================================
